---- MODULE Spec2Model ----
(***************************************************************************)
(* tempura: the data acquisition layer.                                    *)
(*   src/tempura/api/cache.py   SimpleCache (TTL cache, lazy expiry)       *)
(*   src/tempura/api/client.py  WeatherAPIClient (dispatcher, operations)  *)
(*                                                                         *)
(* SpecCache drives SimpleCache's four methods directly, one call per      *)
(* step, with a clock that only moves forward.                             *)
(* Spec runs the client's operations as coroutines, statement by           *)
(* statement, one caller after the other, against a provider that answers  *)
(* each GET in every way; the second caller finds the cache the first left.*)
(* SpecConc runs the callers concurrently on one event loop.               *)
(* SpecGeo and SpecAgg exercise the Resolver and the Aggregator, SpecFetch  *)
(* the three weather fetches alone, SpecCred clients that differ in their   *)
(* API key; SpecLive adds the fairness under which operations terminate.    *)
(***************************************************************************)
EXTENDS Integers, Sequences, FiniteSets, TLC

VARIABLES
    cache,      \* SimpleCache._cache: dict key -> (value, expiry)
    now,        \* the value time.time() returns
    clast,      \* the last SimpleCache call of the driver and what it returned
    lastSet,    \* per key: the last set() not followed by set/remove/clear
    stack,      \* per caller: the call stack of its coroutine, innermost frame last
    retv,       \* per caller: the value the last completed call returned
    exc,        \* per caller: the exception being propagated, or None
    running,    \* the caller whose coroutine the event loop is running, or 0
    result,     \* per caller: what its last operation returned or raised
    op,         \* per caller: its current or last operation and arguments
    calls,      \* per caller: the _request invocations of its operation, with
                \* the GETs each one issued and how each GET ended
    api_key,    \* WeatherAPIClient.api_key
    tz          \* UTC offset of the process's local timezone, in seconds

driverVars == <<clast, lastSet>>
clientVars == <<stack, retv, exc, running, result, op, calls, api_key, tz>>
vars == <<cache, now, clast, lastSet, stack, retv, exc, running, result, op,
          calls, api_key, tz>>

----------------------------------------------------------------------------
(* Bounds and inputs *)

\* The clock takes the values 0..MaxTime.
MaxTime == 2
\* Explicit ttl arguments are 0..MaxTtl.
MaxTtl == 2
\* SimpleCache(default_ttl=CacheTtl): the constructor argument of the model's cache.
CacheTtl == 1

\* Python's None, and an opaque value to cache.
None == [t |-> "None"]
Val(v) == [t |-> "val", v |-> v]

CKeys == {"k1", "k2"}
CValues == {Val("v1"), Val("v2")}
\* ttl: Optional[int]; <<>> is None, <<n>> is the integer n.
TtlArgs == {<<>>} \cup {<<n>> : n \in 0..MaxTtl}

\* The callers of one client; each awaits one operation.
Procs == {1, 2}
ApiKeys == {"key-A"}

----------------------------------------------------------------------------
(* SimpleCache *)

\* A get that treats an entry as stale from the instant of its expiry on.
Expired_AtExpiry(t, expiry) == t >= expiry

\* get, line 35: the entry is stale.
Expired(t, expiry) == t > expiry

\* get, lines 30-39: what get returns on store s at time t.
CacheGetValue(s, key, t) ==
    IF key \notin DOMAIN s THEN None
    ELSE IF Expired(t, s[key].expiry) THEN None
    ELSE s[key].value

\* del self._cache[key]
DictDel(s, key) == [x \in (DOMAIN s) \ {key} |-> s[x]]

\* A get that sweeps every stale entry instead of the one it was asked for.
CacheGetStore_Sweep(s, key, t) ==
    [x \in {y \in DOMAIN s : ~Expired(t, s[y].expiry)} |-> s[x]]

\* get, lines 30-39: the store get leaves behind.
CacheGetStore(s, key, t) ==
    IF key \notin DOMAIN s THEN s
    ELSE IF Expired(t, s[key].expiry) THEN DictDel(s, key)
    ELSE s

\* set, lines 50-51: expiry = time.time() + (ttl if ttl is not None else default).
CacheExpiry(ttl, t, default_ttl) ==
    t + (IF ttl # <<>> THEN ttl[1] ELSE default_ttl)

\* A set that keeps an entry that is already there (dict.setdefault).
CacheSetStore_KeepExisting(s, key, value, expiry) ==
    IF key \in DOMAIN s THEN s
    ELSE [x \in (DOMAIN s) \cup {key} |->
            IF x = key THEN [value |-> value, expiry |-> expiry] ELSE s[x]]

\* set, line 52: self._cache[key] = (value, expiry).
CacheSetStore(s, key, value, expiry) ==
    [x \in (DOMAIN s) \cup {key} |->
        IF x = key THEN [value |-> value, expiry |-> expiry] ELSE s[x]]

\* remove, lines 68-71.
CacheRemoveStore(s, key) == IF key \in DOMAIN s THEN DictDel(s, key) ELSE s
CacheRemoveValue(s, key) == key \in DOMAIN s

\* clear, line 56.
CacheClearStore(s) == [x \in {} |-> None]

----------------------------------------------------------------------------
(* Strings: a Python str is the sequence of its characters *)

UPPER == <<"A","B","C","D","E","F","G","H","I","J","K","L","M",
           "N","O","P","Q","R","S","T","U","V","W","X","Y","Z">>
LOWER == <<"a","b","c","d","e","f","g","h","i","j","k","l","m",
           "n","o","p","q","r","s","t","u","v","w","x","y","z">>

\* str.lower() on one character.
LowerChar(c) ==
    IF \E i \in 1..26 : UPPER[i] = c
    THEN LOWER[CHOOSE i \in 1..26 : UPPER[i] = c]
    ELSE c

\* str.lower()
StrLower(s) == [i \in 1..Len(s) |-> LowerChar(s[i])]

\* str.replace(old, new): every non-overlapping occurrence, left to right.
RECURSIVE StrReplace(_, _, _)
StrReplace(s, old, new) ==
    IF Len(s) < Len(old) THEN s
    ELSE IF SubSeq(s, 1, Len(old)) = old
         THEN new \o StrReplace(SubSeq(s, Len(old) + 1, Len(s)), old, new)
         ELSE <<s[1]>> \o StrReplace(Tail(s), old, new)

\* "," in s
HasComma(s) == \E i \in 1..Len(s) : s[i] = ","

\* s.split(",")[0]
BeforeFirstComma(s) ==
    IF HasComma(s)
    THEN SubSeq(s, 1, (CHOOSE i \in 1..Len(s) :
                          s[i] = "," /\ \A j \in 1..(i - 1) : s[j] # ",") - 1)
    ELSE s

\* str.strip() (the model's only whitespace is the blank)
RECURSIVE StrStrip(_)
StrStrip(s) ==
    IF s = <<>> THEN s
    ELSE IF s[1] = " " THEN StrStrip(Tail(s))
    ELSE IF s[Len(s)] = " " THEN StrStrip(SubSeq(s, 1, Len(s) - 1))
    ELSE s

\* str(n) for an integer n >= 0: its decimal digits.
DIGITS == <<"0","1","2","3","4","5","6","7","8","9">>
RECURSIVE StrInt(_)
StrInt(n) ==
    IF n < 10 THEN <<DIGITS[n + 1]>>
    ELSE StrInt(n \div 10) \o <<DIGITS[(n % 10) + 1]>>

----------------------------------------------------------------------------
(* Exceptions *)

\* An exception object: its class and its args[0], the message, as the list
\* of the parts the code joins.
Exc(cls, msg) == [t |-> "exc", cls |-> cls, msg |-> msg]

\* client.py 18-39: the classes derived from WeatherAPIError, itself included.
WeatherAPIErrorClasses ==
    {"WeatherAPIError", "APIKeyError", "LocationNotFoundError", "RateLimitError"}

\* isinstance(e, WeatherAPIError)
IsWeatherAPIError(e) == e.cls \in WeatherAPIErrorClasses

----------------------------------------------------------------------------
(* The provider's answers *)

\* What one awaited client.get(url, params) ends with: httpx raises a
\* RequestError (connection, timeout, DNS), or a response arrives.
Transport(detail) == [t |-> "transport", detail |-> detail]
Http(status, body) == [t |-> "http", status |-> status, body |-> body]

\* A body that is not JSON, and JSON documents.
BadJson == [t |-> "badjson"]
NoBody == [t |-> "nobody"]

Statuses == {200, 204, 301, 401, 404, 429, 500}
Is2xx(status) == status >= 200 /\ status <= 299

\* Response.raise_for_status(): HTTPStatusError unless the status is 2xx.
RaisesForStatus(status) == ~Is2xx(status)

\* A dispatcher that knew no special status: every HTTPStatusError becomes the
\* generic error.
StatusError_Generic(status) ==
    Exc("WeatherAPIError", <<"API error: ", StrInt(status)>>)

\* _request, lines 104-112: the exception raised for an HTTPStatusError.
StatusError(status) ==
    IF status = 401 THEN Exc("APIKeyError", <<"Invalid API key">>)
    ELSE IF status = 404 THEN Exc("LocationNotFoundError", <<"Location not found">>)
    ELSE IF status = 429 THEN Exc("RateLimitError", <<"API rate limit exceeded">>)
    ELSE Exc("WeatherAPIError", <<"API error: ", StrInt(status)>>)

\* A dispatcher that put the URL it had requested, query string and all, into
\* the message.
NetworkError_WithUrl(detail) ==
    Exc("WeatherAPIError", <<"Network error: ", detail, <<"appid=", api_key>>>>)

\* _request, lines 114-115: the exception raised for a RequestError e.
NetworkError(detail) == Exc("WeatherAPIError", <<"Network error: ", detail>>)

\* _request, lines 101-112: what _request does with a response that arrived:
\* it raises the mapped error, or returns response.json(), which raises
\* json.JSONDecodeError (caught by neither except clause) on a body that is
\* not JSON.
RequestResult(status, body) ==
    IF RaisesForStatus(status) THEN [t |-> "raise", e |-> StatusError(status)]
    ELSE IF body.t = "badjson"
         THEN [t |-> "raise", e |-> Exc("JSONDecodeError", <<"Expecting value">>)]
         ELSE [t |-> "return", v |-> body]

\* A dispatcher that sent the GET again after a transport failure.
RequestFlow_Retry(outcome) == IF outcome.t = "transport" THEN "L100" ELSE "L101"

\* A dispatcher that went on waiting whatever the GET ended with.
RequestFlow_Wait(outcome) == "await"

\* _request, lines 98-115: where control goes when the awaited GET of line
\* 100 ends: on to line 101, or into the RequestError handler of line 114.
\* No path leads back to line 100.
RequestFlow(outcome) == IF outcome.t = "transport" THEN "L114" ELSE "L101"

----------------------------------------------------------------------------
(* JSON documents and the typed entities of models.py *)

\* Distinguishes one provider answer from another.
Vers == {1, 2}

\* A /data/2.5/weather document; valid: it has the fields CurrentWeather requires.
WeatherDoc(valid, ver) == [t |-> "dict", kind |-> "weather", valid |-> valid, ver |-> ver]
\* A /data/2.5/forecast document with the samples of its "list".
ForecastDoc(valid, list) == [t |-> "dict", kind |-> "forecast", valid |-> valid, list |-> list]
\* A /data/2.5/forecast/daily document with the entries of its "list".
DailyDoc(valid, list) == [t |-> "dict", kind |-> "daily", valid |-> valid, list |-> list]
\* A /geo/1.0/direct document: a JSON array.
GeoDoc(items) == [t |-> "list", items |-> items]
GeoItem(valid, name, lat, lon) == [valid |-> valid, name |-> name, lat |-> lat, lon |-> lon]

\* models.py 76-93: CurrentWeather(**data); pydantic raises ValidationError
\* when a required field is missing or mistyped.
CurrentWeather(data) ==
    IF data.t = "dict" /\ data.kind = "weather" /\ data.valid
    THEN [ok |-> TRUE, v |-> [t |-> "CurrentWeather", ver |-> data.ver]]
    ELSE [ok |-> FALSE]

\* models.py 141-148: HourlyForecast(**data)
HourlyForecast(data) ==
    IF data.t = "dict" /\ data.kind = "forecast" /\ data.valid
    THEN [ok |-> TRUE, v |-> [t |-> "HourlyForecast", list |-> data.list]]
    ELSE [ok |-> FALSE]

\* models.py 203-210: DailyForecast(**data)
DailyForecast(data) ==
    IF data.t = "dict" /\ data.kind = "daily" /\ data.valid
    THEN [ok |-> TRUE,
          v |-> [t |-> "DailyForecast", cnt |-> Len(data.list), list |-> data.list]]
    ELSE [ok |-> FALSE]

\* client.py 316: [GeocodingResult(**item) for item in data]
GeocodingResults(data) ==
    IF data.t = "list" /\ \A i \in 1..Len(data.items) : data.items[i].valid
    THEN [ok |-> TRUE,
          v |-> [t |-> "list",
                 items |-> [i \in 1..Len(data.items) |->
                              [name |-> data.items[i].name,
                               lat |-> data.items[i].lat,
                               lon |-> data.items[i].lon]]]]
    ELSE [ok |-> FALSE]

\* An "if cached:" that never found anything.
Truthy_Never(x) == FALSE

\* An "if not data:" that took only None for false.
Truthy_NotNone(x) == x.t # "None"

\* bool(x) as "if cached:" and "if not data:" take it: None, an empty list and
\* an empty dict are false, a pydantic model is true.
Truthy(x) ==
    /\ x.t # "None"
    /\ ~(x.t = "list" /\ x.items = <<>>)
    /\ ~(x.t = "dict" /\ x.kind = "empty")

----------------------------------------------------------------------------
(* The Aggregator: WeatherAPIClient._aggregate_hourly_to_daily *)

\* client.py 225: hourly.list[:days * 8]
SamplesPerDay == 8

\* One 3-hour sample (HourlyWeatherData); temperatures are whole numbers here.
Sample(dt, temp, feels, pop, st) ==
    [dt |-> dt, temp |-> temp, feels_like |-> feels, pop |-> pop,
     pressure |-> 1000 + st, humidity |-> 50 + st, weather |-> st,
     speed |-> st, deg |-> 10 * st, clouds |-> st]

\* An aggregator that cut nothing off.
Take_All(s, n) == s

\* s[:n] for n >= 0
Take(s, n) == SubSeq(s, 1, IF n < Len(s) THEN n ELSE Len(s))

\* datetime.fromtimestamp(dt).date() as a day number, in the local timezone
\* whose UTC offset is utcoff seconds.
LocalDate(dt, utcoff) == (dt + utcoff) \div (24 * 3600)

\* int(datetime.combine(date, datetime.min.time()).timestamp())
LocalMidnight(date, utcoff) == date * (24 * 3600) - utcoff

RECURSIVE SeqSum(_)
SeqSum(s) == IF s = <<>> THEN 0 ELSE s[1] + SeqSum(Tail(s))
SeqMin(s) == CHOOSE x \in {s[i] : i \in 1..Len(s)} : \A i \in 1..Len(s) : x <= s[i]
SeqMax_Last(s) == s[Len(s)]
SeqMax(s) == CHOOSE x \in {s[i] : i \in 1..Len(s)} : \A i \in 1..Len(s) : x >= s[i]

\* sorted(...) of a set of day numbers
RECURSIVE SortedSeq(_)
SortedSeq(S) ==
    IF S = {} THEN <<>>
    ELSE LET m == CHOOSE x \in S : \A y \in S : x <= y
         IN  <<m>> \o SortedSeq(S \ {m})

\* A list read from its front where the code reads it from its end.
FromEnd_Front(s, k) == s[k]

\* s[-k] for 1 <= k <= len(s)
FromEnd(s, k) == s[Len(s) - k + 1]

\* A summary whose fields came from the bucket's last sample.
FirstOf_Last(items) == items[Len(items)]

\* items[0]
FirstOf(items) == items[1]

\* client.py 237-264: the DailyWeatherData of one bucket. sum/len is kept as
\* the exact fraction <<sum, len>>.
DailySummary(date, items, utcoff) ==
    LET temps == [i \in 1..Len(items) |-> items[i].temp]
        feels == [i \in 1..Len(items) |-> items[i].feels_like]
        n == Len(items)
    IN  [dt |-> LocalMidnight(date, utcoff),
         temp |-> [day |-> <<SeqSum(temps), n>>,
                   min |-> SeqMin(temps),
                   max |-> SeqMax(temps),
                   night |-> IF n > 0 THEN FromEnd(temps, 1) ELSE 0,
                   eve |-> IF n > 1 THEN FromEnd(temps, 2) ELSE 0,
                   morn |-> IF n > 0 THEN temps[1] ELSE 0],
         feels_like |-> [day |-> <<SeqSum(feels), n>>,
                         night |-> IF n > 0 THEN FromEnd(feels, 1) ELSE 0,
                         eve |-> IF n > 1 THEN FromEnd(feels, 2) ELSE 0,
                         morn |-> IF n > 0 THEN feels[1] ELSE 0],
         pressure |-> FirstOf(items).pressure,
         humidity |-> FirstOf(items).humidity,
         weather |-> FirstOf(items).weather,
         speed |-> FirstOf(items).speed,
         deg |-> FirstOf(items).deg,
         clouds |-> FirstOf(items).clouds,
         pop |-> SeqMax([i \in 1..Len(items) |-> items[i].pop])]

\* An aggregator that summarised one day at least, whatever days it was given.
AggregateHourlyToDaily_OneDayAtLeast(hourly, days, utcoff) ==
    LET atLeast == IF days < 1 THEN 1 ELSE days
        window == Take(hourly.list, atLeast * SamplesPerDay)
        dates == SortedSeq({LocalDate(window[i].dt, utcoff) : i \in 1..Len(window)})
        kept == Take(dates, atLeast)
        bucket(d) == SelectSeq(window, LAMBDA x : LocalDate(x.dt, utcoff) = d)
        daily_list == [i \in 1..Len(kept) |-> DailySummary(kept[i], bucket(kept[i]), utcoff)]
    IN  [t |-> "DailyForecast", cnt |-> Len(daily_list), list |-> daily_list]

\* client.py 223-269
AggregateHourlyToDaily(hourly, days, utcoff) ==
    LET window == Take(hourly.list, days * SamplesPerDay)
        dates == SortedSeq({LocalDate(window[i].dt, utcoff) : i \in 1..Len(window)})
        kept == Take(dates, days)
        bucket(d) == SelectSeq(window, LAMBDA x : LocalDate(x.dt, utcoff) = d)
        daily_list == [i \in 1..Len(kept) |-> DailySummary(kept[i], bucket(kept[i]), utcoff)]
    IN  [t |-> "DailyForecast", cnt |-> Len(daily_list), list |-> daily_list]

----------------------------------------------------------------------------
(* The Resolver's query text: geocode_location, lines 285-297 and 309 *)

\* client.py 285-290, in the dict's insertion order.
CountryCodeMap ==
    << <<<<"U","K">>, <<"G","B">>>>,
       <<<<"U","S","A">>, <<"U","S">>>>,
       <<<<"U","n","i","t","e","d"," ","S","t","a","t","e","s">>, <<"U","S">>>>,
       <<<<"U","n","i","t","e","d"," ","K","i","n","g","d","o","m">>, <<"G","B">>>> >>

\* client.py 292-295: both replacements for the first n entries of the map.
RECURSIVE NormalizeUpTo(_, _)
NormalizeUpTo(name, n) ==
    IF n = 0 THEN name
    ELSE LET old == CountryCodeMap[n][1]
             new == CountryCodeMap[n][2]
         IN  CHOOSE q2 \in
                 {StrReplace(q1, <<",">> \o old, <<",">> \o new) :
                     q1 \in {StrReplace(q, <<",", " ">> \o old, <<",", " ">> \o new) :
                                q \in {NormalizeUpTo(name, n - 1)}}} : TRUE

\* A resolver that sent the name as typed.
SearchQuery_AsTyped(location_name) == location_name

SearchQuery(location_name) == NormalizeUpTo(location_name, Len(CountryCodeMap))

\* A resolver that narrowed the name without stripping it.
CityOnly_Unstripped(location_name) == BeforeFirstComma(location_name)

\* client.py 309: location_name.split(",")[0].strip()
CityOnly(location_name) == StrStrip(BeforeFirstComma(location_name))

\* A resolver that keyed its cache entry by the query it sent.
GeocodeKey_Normalized(location_name) ==
    <<"geocode:", StrLower(SearchQuery(location_name))>>

\* client.py 131, 159, 192, 297: the cache keys. An f-string of floats and ints
\* joined by "," and ":" is kept as the tuple of its parts.
\* A daily key without the day count.
DailyKey_NoDays(lat, lon, days) == <<"daily:", lat, lon>>
CurrentKey(lat, lon) == <<"current:", lat, lon>>
HourlyKey(lat, lon) == <<"hourly:", lat, lon>>
DailyKey(lat, lon, days) == <<"daily:", lat, lon, days>>
GeocodeKey(location_name) == <<"geocode:", StrLower(location_name)>>

\* client.py 317: ttl=86400
GeocodeTtl == 86400

----------------------------------------------------------------------------
(* The driver of SpecCache *)

NoSet == [t |-> "NoSet"]

\* The client before any operation: every caller idle, the loop free.
ClientIdle ==
    /\ stack = [p \in Procs |-> <<>>]
    /\ retv = [p \in Procs |-> None]
    /\ exc = [p \in Procs |-> None]
    /\ running = 0
    /\ result = [p \in Procs |-> None]
    /\ op = [p \in Procs |-> None]
    /\ calls = [p \in Procs |-> <<>>]
    /\ api_key \in ApiKeys
    /\ tz = 0

InitCache ==
    /\ cache = [x \in {} |-> None]
    /\ now = 0
    /\ clast = [op |-> "init"]
    /\ lastSet = [k \in CKeys |-> NoSet]
    /\ ClientIdle

\* What set(k, v, ...) with new expiry e finds under k: nothing (<<>>), or an
\* entry, of which the driver notes whether its value differs from v, whether
\* its expiry is later than e and whether it is already stale.
PrevOf(k, v, e) ==
    IF k \notin DOMAIN cache THEN <<>>
    ELSE <<[differs |-> cache[k].value # v,
            later |-> cache[k].expiry > e,
            stale |-> now > cache[k].expiry]>>

CGet(k) ==
    /\ cache' = CacheGetStore(cache, k, now)
    /\ clast' = [op |-> "get", key |-> k, at |-> now,
                 ret |-> CacheGetValue(cache, k, now)]
    /\ UNCHANGED <<now, lastSet, clientVars>>

CSet(k, v, ttl) ==
    /\ cache' = CacheSetStore(cache, k, v, CacheExpiry(ttl, now, CacheTtl))
    /\ clast' = [op |-> "set", key |-> k]
    /\ lastSet' = [lastSet EXCEPT ![k] =
                      [t |-> "Set", value |-> v,
                       exp |-> now + (IF ttl # <<>> THEN ttl[1] ELSE CacheTtl),
                       prev |-> PrevOf(k, v, now + (IF ttl # <<>> THEN ttl[1] ELSE CacheTtl))]]
    /\ UNCHANGED <<now, clientVars>>

CRemove(k) ==
    /\ cache' = CacheRemoveStore(cache, k)
    /\ clast' = [op |-> "remove", key |-> k,
                 ret |-> CacheRemoveValue(cache, k)]
    /\ lastSet' = [lastSet EXCEPT ![k] = NoSet]
    /\ UNCHANGED <<now, clientVars>>

CClear ==
    /\ cache' = CacheClearStore(cache)
    /\ clast' = [op |-> "clear"]
    /\ lastSet' = [k \in CKeys |-> NoSet]
    /\ UNCHANGED <<now, clientVars>>

CTick ==
    /\ now < MaxTime
    /\ now' = now + 1
    /\ UNCHANGED <<cache, clast, lastSet, clientVars>>

NextCache ==
    \/ \E k \in CKeys : CGet(k)
    \/ \E k \in CKeys, v \in CValues, ttl \in TtlArgs : CSet(k, v, ttl)
    \/ \E k \in CKeys : CRemove(k)
    \/ CClear
    \/ CTick

SpecCache == InitCache /\ [][NextCache]_vars

----------------------------------------------------------------------------
(* Claims about SimpleCache, under SpecCache *)

\* The last call was get(k), and k's last set(k, v, ttl=t) at time T was not
\* followed by a set/remove/clear on k; lastSet[k].exp is T+t.
GetAfterSet(k) ==
    /\ clast.op = "get"
    /\ clast.key = k
    /\ lastSet[k].t = "Set"

\* C1 as stated: after set(k, v, ttl=t) at time T, every get(k) strictly before
\* T+t returns v and every get(k) at or after T+t returns None.
C1_Original ==
    \A k \in CKeys :
        GetAfterSet(k) =>
            /\ (clast.at < lastSet[k].exp
                    => clast.ret = lastSet[k].value)
            /\ (clast.at >= lastSet[k].exp => clast.ret = None)

\* C1 amended: after set(k, v, ttl=t) at time T, every get(k) at a time up to and
\* including T+t returns v, and every get(k) strictly later than T+t returns
\* None.
C1_GetAfterSet ==
    \A k \in CKeys :
        GetAfterSet(k) =>
            /\ (clast.at <= lastSet[k].exp
                    => clast.ret = lastSet[k].value)
            /\ (clast.at > lastSet[k].exp => clast.ret = None)

\* A get at the very instant of expiry, T+t with t > 0, that returned the value.
C1_Witness ==
    \E k \in CKeys :
        /\ GetAfterSet(k)
        /\ clast.at > 0
        /\ clast.at = lastSet[k].exp
        /\ clast.ret = lastSet[k].value

\* C3: set(k, v2, ttl) on a key that already holds an entry replaces it
\* unconditionally: the entry is (v2, now + (ttl if given else default)) right
\* after the set and as long as it stays in the store, and a get(k) before the
\* new expiry returns v2, whatever the previous entry's expiry was.
C3_SetOverwrites ==
    \A k \in CKeys :
        (lastSet[k].t = "Set" /\ lastSet[k].prev # <<>>) =>
            /\ (clast.op = "set" /\ clast.key = k => k \in DOMAIN cache)
            /\ (k \in DOMAIN cache =>
                    cache[k] = [value |-> lastSet[k].value,
                                expiry |-> lastSet[k].exp])
            /\ (GetAfterSet(k) /\ clast.at < lastSet[k].exp
                    => clast.ret = lastSet[k].value)

\* A get returned v2 after a set with a short ttl replaced an entry holding
\* another value whose expiry was later than the new one.
C3_Witness ==
    \E k \in CKeys :
        /\ GetAfterSet(k)
        /\ lastSet[k].prev # <<>>
        /\ lastSet[k].prev[1].differs
        /\ lastSet[k].prev[1].later
        /\ clast.ret = lastSet[k].value

\* C4: a get(k) returns None and removes exactly k's entry when that entry is
\* stale, returns None and changes nothing when k has no entry, changes nothing
\* on a hit, and in every case leaves the entries of all other keys as they
\* were (no other stale entry is swept).
C4_GetFrame ==
    [][clast'.op = "get" =>
        LET k == clast'.key
            t == clast'.at
        IN  /\ (k \notin DOMAIN cache => clast'.ret = None /\ cache' = cache)
            /\ (k \in DOMAIN cache /\ t > cache[k].expiry =>
                    /\ clast'.ret = None
                    /\ DOMAIN cache' = (DOMAIN cache) \ {k})
            /\ (k \in DOMAIN cache /\ t <= cache[k].expiry => cache' = cache)
            /\ \A j \in (DOMAIN cache) \ {k} :
                    j \in DOMAIN cache' /\ cache'[j] = cache[j]
    ]_vars

\* A get evicted k's stale entry while another key's stale entry stayed.
C4_Witness ==
    \E k \in CKeys :
        /\ GetAfterSet(k)
        /\ clast.at > lastSet[k].exp
        /\ clast.ret = None
        /\ k \notin DOMAIN cache
        /\ \E j \in (DOMAIN cache) \ {k} : now > cache[j].expiry

----------------------------------------------------------------------------
(* The client: inputs of the operations and answers of the provider *)

Coords == {<<10, 20>>}
DaysArgs == {1, 2}
Queries == { <<"R","o","m","e">>, <<"B","a","t","h",","," ","U","K">> }

HourlyLists ==
    { <<>>,
      <<Sample(0, 10, 9, 1, 1), Sample(10800, 14, 12, 3, 2),
        Sample(86400, 8, 8, 0, 3)>> }

\* Entries of a native daily document: only their number matters here.
DailyLists == { <<[dt |-> 0]>>, <<[dt |-> 0], [dt |-> 86400], [dt |-> 172800]>> }

GeoLists ==
    { <<>>,
      <<GeoItem(FALSE, "Bath", 10, 20)>>,
      <<GeoItem(TRUE, "Bath", 10, 20), GeoItem(TRUE, "Bath", 30, 40)>> }

Bodies(endpoint) ==
    {BadJson} \cup
    CASE endpoint = "/data/2.5/weather" ->
            {WeatherDoc(FALSE, 1)} \cup {WeatherDoc(TRUE, v) : v \in Vers}
      [] endpoint = "/data/2.5/forecast" ->
            {ForecastDoc(FALSE, <<>>)} \cup {ForecastDoc(TRUE, l) : l \in HourlyLists}
      [] endpoint = "/data/2.5/forecast/daily" ->
            {DailyDoc(FALSE, <<>>)} \cup {DailyDoc(TRUE, l) : l \in DailyLists}
      [] endpoint = "/geo/1.0/direct" ->
            {GeoDoc(l) : l \in GeoLists}

\* How one GET can end: a transport failure, a non-2xx status, 204 with no
\* content, or 200 with a body.
Outcomes(endpoint) ==
    {Transport(<<"timed out">>)}
    \cup {Http(st, NoBody) : st \in {x \in Statuses : ~Is2xx(x)}}
    \cup {Http(204, BadJson)}
    \cup {Http(200, b) : b \in Bodies(endpoint)}

Endpoints ==
    {"/data/2.5/weather", "/data/2.5/forecast", "/data/2.5/forecast/daily",
     "/geo/1.0/direct"}
AllOutcomes == UNION {Outcomes(e) : e \in Endpoints}

Pending == [t |-> "pending"]

----------------------------------------------------------------------------
(* Coroutines: frames, calls, returns, exceptions *)

Top(p) == stack[p][Len(stack[p])]

FirstPc(fn) ==
    CASE fn = "SimpleCache.get" -> "L30"
      [] fn = "SimpleCache.set" -> "L50"
      [] fn = "_request" -> "L95"
      [] fn = "get_current_weather" -> "L131"
      [] fn = "get_hourly_forecast" -> "L159"
      [] fn = "get_daily_forecast" -> "L192"
      [] fn = "geocode_location" -> "L292"
      [] fn = "get_weather_for_location" -> "L332"

\* Callers scheduled as preemptive threads: one is started or resumed at any
\* moment, whatever another is doing.
LoopFree_Threads == TRUE

\* The operations are coroutines of one asyncio event loop (asyncio.run in
\* cli.py, Textual's run_worker in the screens): a coroutine is started or
\* resumed only when none is running, and the running one keeps the loop until
\* it awaits the network or ends.
LoopFree == running = 0

\* A frame: the function, the line it is at (for a frame below the top: the
\* line its callee returns to), its arguments a and its locals l; w notes the
\* keys of the cache entries written since the call began.
NewFrame(fn, a) == [fn |-> fn, pc |-> FirstPc(fn), a |-> a, l |-> None, w |-> <<>>]

\* Caller p is running in function fn at line pc, with no exception pending.
At(p, fn, pc) ==
    /\ running = p
    /\ exc[p] = None
    /\ stack[p] # <<>>
    /\ Top(p).fn = fn
    /\ Top(p).pc = pc

WithTop(st, f) == [st EXCEPT ![Len(st)] = f]
Popped(st) == SubSeq(st, 1, Len(st) - 1)

\* Go on in the same function at line pc with locals l.
Jump(p, pc, l) ==
    /\ stack' = [stack EXCEPT ![p] = WithTop(@, [Top(p) EXCEPT !.pc = pc, !.l = l])]
    /\ retv' = [retv EXCEPT ![p] = None]
    /\ UNCHANGED <<exc, running, result>>

\* Call fn(a); the callee returns to line pc of the caller, whose locals are l.
Call(p, pc, l, fn, a) ==
    /\ stack' = [stack EXCEPT ![p] =
                    Append(WithTop(@, [Top(p) EXCEPT !.pc = pc, !.l = l]),
                           NewFrame(fn, a))]
    /\ retv' = [retv EXCEPT ![p] = None]
    /\ UNCHANGED <<exc, running, result>>

\* return v: to the caller's frame, or, from the outermost frame, to the
\* code that awaited the operation; the coroutine is then over.
Return(p, v) ==
    /\ stack' = [stack EXCEPT ![p] = Popped(@)]
    /\ IF Len(stack[p]) = 1
       THEN /\ result' = [result EXCEPT ![p] = v]
            /\ retv' = [retv EXCEPT ![p] = None]
            /\ running' = 0
       ELSE /\ retv' = [retv EXCEPT ![p] = v]
            /\ UNCHANGED <<result, running>>
    /\ UNCHANGED exc

\* raise e
Raise(p, e) ==
    /\ exc' = [exc EXCEPT ![p] = e]
    /\ retv' = [retv EXCEPT ![p] = None]
    /\ UNCHANGED <<stack, running, result>>

\* A get_daily_forecast whose handler also covered its own fallback (line 208,
\* waiting for get_hourly_forecast).
Catches_InFallback(frame, e) ==
    /\ frame.fn = "get_daily_forecast"
    /\ frame.pc \in {"L203", "L205", "L208"}
    /\ IsWeatherAPIError(e)

\* A get_daily_forecast whose handler was a bare "except:".
Catches_Bare(frame, e) ==
    /\ frame.fn = "get_daily_forecast"
    /\ frame.pc \in {"L203", "L205"}

\* get_daily_forecast, lines 201-206: the frame is inside the try block (at
\* line 203, or waiting for the calls of lines 202 and 204 to return) and
\* "except (APIKeyError, WeatherAPIError)" matches e.
Catches(frame, e) ==
    /\ frame.fn = "get_daily_forecast"
    /\ frame.pc \in {"L203", "L205"}
    /\ IsWeatherAPIError(e)

\* One step of exception propagation: the frame on top handles the exception
\* or is left.
Propagate(p) ==
    /\ running = p
    /\ exc[p] # None
    /\ stack[p] # <<>>
    /\ IF Catches(Top(p), exc[p])
       THEN /\ stack' = [stack EXCEPT ![p] = WithTop(@, [Top(p) EXCEPT !.pc = "L207"])]
            /\ exc' = [exc EXCEPT ![p] = None]
            /\ UNCHANGED <<result, running>>
       ELSE /\ stack' = [stack EXCEPT ![p] = Popped(@)]
            /\ IF Len(stack[p]) = 1
               THEN /\ result' = [result EXCEPT ![p] = exc[p]]
                    /\ exc' = [exc EXCEPT ![p] = None]
                    /\ running' = 0
               ELSE UNCHANGED <<result, exc, running>>
    /\ UNCHANGED <<retv, cache, now, op, calls, api_key, tz, driverVars>>

\* What a step that touches neither the cache nor the network leaves alone.
Pure == UNCHANGED <<cache, now, op, calls, api_key, tz, driverVars>>
\* The same for a step that writes the cache.
CacheWrite == UNCHANGED <<now, op, calls, api_key, tz, driverVars>>

----------------------------------------------------------------------------
(* SimpleCache as the client's coroutines run it, statement by statement *)

\* get, lines 30-35 and 39: miss, hit, or stale (go on to line 36). The
\* clock is read once, at line 35.
SimpleCache_get_L30(p) ==
    /\ At(p, "SimpleCache.get", "L30")
    /\ LET key == Top(p).a.key
       IN  IF CacheGetStore(cache, key, now) = cache
           THEN Return(p, CacheGetValue(cache, key, now))
           ELSE Jump(p, "L36", [current_time |-> now])
    /\ Pure

\* get, lines 36-37: evict and return None.
SimpleCache_get_L36(p) ==
    /\ At(p, "SimpleCache.get", "L36")
    /\ cache' = CacheGetStore(cache, Top(p).a.key, Top(p).l.current_time)
    /\ Return(p, None)
    /\ CacheWrite

\* set, lines 50-51.
SimpleCache_set_L50(p) ==
    /\ At(p, "SimpleCache.set", "L50")
    /\ Jump(p, "L52", [expiry |-> CacheExpiry(Top(p).a.ttl, now, CacheTtl)])
    /\ Pure

\* set, line 52, and the return to the caller; the write is noted in every
\* call that is in progress.
SimpleCache_set_L52(p) ==
    /\ At(p, "SimpleCache.set", "L52")
    /\ cache' = CacheSetStore(cache, Top(p).a.key, Top(p).a.value, Top(p).l.expiry)
    /\ stack' = [stack EXCEPT ![p] =
                    [i \in 1..(Len(@) - 1) |->
                        [@[i] EXCEPT !.w = Append(@, Top(p).a.key)]]]
    /\ retv' = [retv EXCEPT ![p] = None]
    /\ UNCHANGED <<exc, result, running>>
    /\ CacheWrite

----------------------------------------------------------------------------
(* The dispatcher: WeatherAPIClient._request *)

\* The last invocation of calls[p], changed to inv.
WithLastCall(p, inv) == [calls EXCEPT ![p] = WithTop(@, inv)]
LastCall(p) == calls[p][Len(calls[p])]

\* The number of _request invocations on record, over all callers.
RECURSIVE Invocations(_)
Invocations(S) ==
    IF S = {} THEN 0
    ELSE LET q == CHOOSE x \in S : TRUE
         IN  Len(calls[q]) + Invocations(S \ {q})

\* lines 95-96: params["appid"] = self.api_key; url = BASE_URL + endpoint.
\* The record of the invocation notes its place (nth) among those on record.
request_L95(p) ==
    /\ At(p, "_request", "L95")
    /\ calls' = [calls EXCEPT ![p] =
                    Append(@, [endpoint |-> Top(p).a.endpoint,
                               params |-> Top(p).a.params,
                               appid |-> api_key,
                               nth |-> Invocations(Procs) + 1,
                               gets |-> <<>>])]
    /\ Jump(p, "L100", None)
    /\ UNCHANGED <<cache, now, op, api_key, tz, driverVars>>

\* lines 99-100: the GET is sent and the coroutine is suspended in
\* "await client.get(url, params=params)": the loop is free.
request_L100(p) ==
    /\ At(p, "_request", "L100")
    /\ calls' = WithLastCall(p, [LastCall(p) EXCEPT !.gets = Append(@, Pending)])
    /\ stack' = [stack EXCEPT ![p] = WithTop(@, [Top(p) EXCEPT !.pc = "await"])]
    /\ running' = 0
    /\ UNCHANGED <<retv, exc, result, cache, now, op, api_key, tz, driverVars>>

\* The awaited GET ends with outcome and the loop resumes the coroutine.
request_await(p, outcome) ==
    /\ LoopFree
    /\ stack[p] # <<>>
    /\ Top(p).fn = "_request"
    /\ Top(p).pc = "await"
    /\ outcome \in Outcomes(Top(p).a.endpoint)
    /\ running' = p
    /\ stack' = [stack EXCEPT ![p] =
                    WithTop(@, [Top(p) EXCEPT !.pc = RequestFlow(outcome),
                                              !.l = outcome])]
    /\ calls' = WithLastCall(p,
                    [LastCall(p) EXCEPT !.gets = WithTop(@, outcome)])
    /\ UNCHANGED <<retv, exc, result, cache, now, op, api_key, tz, driverVars>>

\* asyncio.CancelledError, a BaseException.
CancelledError == Exc("CancelledError", <<>>)
Cancelled == [t |-> "cancelled"]

\* The task of caller p is cancelled while it is suspended in the GET: the
\* loop resumes the coroutine by raising CancelledError at the await of line
\* 100, which neither except clause of _request matches.
request_cancelled(p) ==
    /\ LoopFree
    /\ stack[p] # <<>>
    /\ Top(p).fn = "_request"
    /\ Top(p).pc = "await"
    /\ running' = p
    /\ exc' = [exc EXCEPT ![p] = CancelledError]
    /\ calls' = WithLastCall(p,
                    [LastCall(p) EXCEPT !.gets = WithTop(@, Cancelled)])
    /\ UNCHANGED <<stack, retv, result, cache, now, op, api_key, tz, driverVars>>

\* lines 101-112: raise_for_status(), response.json(), the status handler.
request_L101(p) ==
    /\ At(p, "_request", "L101")
    /\ LET r == RequestResult(Top(p).l.status, Top(p).l.body)
       IN  IF r.t = "raise" THEN Raise(p, r.e) ELSE Return(p, r.v)
    /\ Pure

\* lines 114-115: the RequestError handler.
request_L114(p) ==
    /\ At(p, "_request", "L114")
    /\ Raise(p, NetworkError(Top(p).l.detail))
    /\ Pure

----------------------------------------------------------------------------
(* get_current_weather *)

ValidationError == Exc("ValidationError", <<"validation error">>)

get_current_weather_L131(p) ==
    /\ At(p, "get_current_weather", "L131")
    /\ LET a == Top(p).a
           l == [cache_key |-> CurrentKey(a.lat, a.lon)]
       IN  IF a.use_cache
           THEN Call(p, "L135", l, "SimpleCache.get", [key |-> l.cache_key])
           ELSE Jump(p, "L138", l)
    /\ Pure

get_current_weather_L135(p) ==
    /\ At(p, "get_current_weather", "L135")
    /\ IF Truthy(retv[p]) THEN Return(p, retv[p]) ELSE Jump(p, "L138", Top(p).l)
    /\ Pure

get_current_weather_L138(p) ==
    /\ At(p, "get_current_weather", "L138")
    /\ Call(p, "L140", Top(p).l, "_request",
            [endpoint |-> "/data/2.5/weather",
             params |-> [lat |-> Top(p).a.lat, lon |-> Top(p).a.lon,
                         units |-> "metric"]])
    /\ Pure

get_current_weather_L140(p) ==
    /\ At(p, "get_current_weather", "L140")
    /\ LET weather == CurrentWeather(retv[p])
       IN  IF weather.ok
           THEN Call(p, "L143",
                     [cache_key |-> Top(p).l.cache_key, weather |-> weather.v],
                     "SimpleCache.set",
                     [key |-> Top(p).l.cache_key, value |-> weather.v, ttl |-> <<>>])
           ELSE Raise(p, ValidationError)
    /\ Pure

get_current_weather_L143(p) ==
    /\ At(p, "get_current_weather", "L143")
    /\ Return(p, Top(p).l.weather)
    /\ Pure

----------------------------------------------------------------------------
(* get_hourly_forecast *)

get_hourly_forecast_L159(p) ==
    /\ At(p, "get_hourly_forecast", "L159")
    /\ LET a == Top(p).a
           l == [cache_key |-> HourlyKey(a.lat, a.lon)]
       IN  IF a.use_cache
           THEN Call(p, "L163", l, "SimpleCache.get", [key |-> l.cache_key])
           ELSE Jump(p, "L166", l)
    /\ Pure

get_hourly_forecast_L163(p) ==
    /\ At(p, "get_hourly_forecast", "L163")
    /\ IF Truthy(retv[p]) THEN Return(p, retv[p]) ELSE Jump(p, "L166", Top(p).l)
    /\ Pure

get_hourly_forecast_L166(p) ==
    /\ At(p, "get_hourly_forecast", "L166")
    /\ Call(p, "L168", Top(p).l, "_request",
            [endpoint |-> "/data/2.5/forecast",
             params |-> [lat |-> Top(p).a.lat, lon |-> Top(p).a.lon,
                         units |-> "metric"]])
    /\ Pure

get_hourly_forecast_L168(p) ==
    /\ At(p, "get_hourly_forecast", "L168")
    /\ LET forecast == HourlyForecast(retv[p])
       IN  IF forecast.ok
           THEN Call(p, "L171",
                     [cache_key |-> Top(p).l.cache_key, forecast |-> forecast.v],
                     "SimpleCache.set",
                     [key |-> Top(p).l.cache_key, value |-> forecast.v, ttl |-> <<>>])
           ELSE Raise(p, ValidationError)
    /\ Pure

get_hourly_forecast_L171(p) ==
    /\ At(p, "get_hourly_forecast", "L171")
    /\ Return(p, Top(p).l.forecast)
    /\ Pure

----------------------------------------------------------------------------
(* get_daily_forecast *)

get_daily_forecast_L192(p) ==
    /\ At(p, "get_daily_forecast", "L192")
    /\ LET a == Top(p).a
           l == [cache_key |-> DailyKey(a.lat, a.lon, a.days)]
       IN  IF a.use_cache
           THEN Call(p, "L196", l, "SimpleCache.get", [key |-> l.cache_key])
           ELSE Jump(p, "L199", l)
    /\ Pure

get_daily_forecast_L196(p) ==
    /\ At(p, "get_daily_forecast", "L196")
    /\ IF Truthy(retv[p]) THEN Return(p, retv[p]) ELSE Jump(p, "L199", Top(p).l)
    /\ Pure

\* lines 199-202: the native call, inside the try block.
get_daily_forecast_L199(p) ==
    /\ At(p, "get_daily_forecast", "L199")
    /\ Call(p, "L203", Top(p).l, "_request",
            [endpoint |-> "/data/2.5/forecast/daily",
             params |-> [lat |-> Top(p).a.lat, lon |-> Top(p).a.lon,
                         cnt |-> Top(p).a.days, units |-> "metric"]])
    /\ Pure

\* lines 203-204, inside the try block.
get_daily_forecast_L203(p) ==
    /\ At(p, "get_daily_forecast", "L203")
    /\ LET forecast == DailyForecast(retv[p])
       IN  IF forecast.ok
           THEN Call(p, "L205",
                     [cache_key |-> Top(p).l.cache_key, forecast |-> forecast.v],
                     "SimpleCache.set",
                     [key |-> Top(p).l.cache_key, value |-> forecast.v, ttl |-> <<>>])
           ELSE Raise(p, ValidationError)
    /\ Pure

get_daily_forecast_L205(p) ==
    /\ At(p, "get_daily_forecast", "L205")
    /\ Return(p, Top(p).l.forecast)
    /\ Pure

\* A fallback that always let its hourly fetch read the cache.
get_daily_forecast_L207_Cached(p) ==
    /\ At(p, "get_daily_forecast", "L207")
    /\ Call(p, "L208", Top(p).l, "get_hourly_forecast",
            [lat |-> Top(p).a.lat, lon |-> Top(p).a.lon, use_cache |-> TRUE])
    /\ Pure

\* line 207, in the except clause.
get_daily_forecast_L207(p) ==
    /\ At(p, "get_daily_forecast", "L207")
    /\ Call(p, "L208", Top(p).l, "get_hourly_forecast",
            [lat |-> Top(p).a.lat, lon |-> Top(p).a.lon,
             use_cache |-> Top(p).a.use_cache])
    /\ Pure

\* lines 208-209
get_daily_forecast_L208(p) ==
    /\ At(p, "get_daily_forecast", "L208")
    /\ LET daily_data == AggregateHourlyToDaily(retv[p], Top(p).a.days, tz)
       IN  Call(p, "L210",
                [cache_key |-> Top(p).l.cache_key, daily_data |-> daily_data],
                "SimpleCache.set",
                [key |-> Top(p).l.cache_key, value |-> daily_data, ttl |-> <<>>])
    /\ Pure

get_daily_forecast_L210(p) ==
    /\ At(p, "get_daily_forecast", "L210")
    /\ Return(p, Top(p).l.daily_data)
    /\ Pure

----------------------------------------------------------------------------
(* geocode_location *)

LocationNotFound(location_name) ==
    Exc("LocationNotFoundError", <<"Location not found: ", location_name>>)

\* lines 285-299
geocode_location_L292(p) ==
    /\ At(p, "geocode_location", "L292")
    /\ LET name == Top(p).a.location_name
           l == [search_query |-> SearchQuery(name), cache_key |-> GeocodeKey(name)]
       IN  Call(p, "L300", l, "SimpleCache.get", [key |-> l.cache_key])
    /\ Pure

\* lines 300-304
geocode_location_L300(p) ==
    /\ At(p, "geocode_location", "L300")
    /\ IF Truthy(retv[p])
       THEN Return(p, retv[p])
       ELSE Call(p, "L306", Top(p).l, "_request",
                 [endpoint |-> "/geo/1.0/direct",
                  params |-> [q |-> Top(p).l.search_query, limit |-> 5]])
    /\ Pure

\* lines 306-311
geocode_location_L306(p) ==
    /\ At(p, "geocode_location", "L306")
    /\ LET name == Top(p).a.location_name
           data == retv[p]
           l == [cache_key |-> Top(p).l.cache_key, data |-> data]
       IN  IF ~Truthy(data) /\ HasComma(name)
           THEN Call(p, "L311", l, "_request",
                     [endpoint |-> "/geo/1.0/direct",
                      params |-> [q |-> CityOnly(name), limit |-> 5]])
           ELSE Jump(p, "L313", l)
    /\ Pure

\* line 311: data = the answer to the narrowed query.
geocode_location_L311(p) ==
    /\ At(p, "geocode_location", "L311")
    /\ Jump(p, "L313", [cache_key |-> Top(p).l.cache_key, data |-> retv[p]])
    /\ Pure

\* lines 313-317
geocode_location_L313(p) ==
    /\ At(p, "geocode_location", "L313")
    /\ LET data == Top(p).l.data
           results == GeocodingResults(data)
       IN  IF ~Truthy(data) THEN Raise(p, LocationNotFound(Top(p).a.location_name))
           ELSE IF ~results.ok THEN Raise(p, ValidationError)
           ELSE Call(p, "L318",
                     [cache_key |-> Top(p).l.cache_key, results |-> results.v],
                     "SimpleCache.set",
                     [key |-> Top(p).l.cache_key, value |-> results.v,
                      ttl |-> <<GeocodeTtl>>])
    /\ Pure

geocode_location_L318(p) ==
    /\ At(p, "geocode_location", "L318")
    /\ Return(p, Top(p).l.results)
    /\ Pure

----------------------------------------------------------------------------
(* get_weather_for_location *)

\* A caller that took the last candidate.
FirstCandidate_Last(results) == results.items[Len(results.items)]

\* line 336: results[0]
FirstCandidate(results) == results.items[1]

get_weather_for_location_L332(p) ==
    /\ At(p, "get_weather_for_location", "L332")
    /\ Call(p, "L333", None, "geocode_location",
            [location_name |-> Top(p).a.location_name])
    /\ Pure

\* lines 333-336
get_weather_for_location_L333(p) ==
    /\ At(p, "get_weather_for_location", "L333")
    /\ LET results == retv[p]
       IN  IF ~Truthy(results)
           THEN Raise(p, LocationNotFound(Top(p).a.location_name))
           ELSE Call(p, "L337", [results |-> results], "get_current_weather",
                     [lat |-> FirstCandidate(results).lat,
                      lon |-> FirstCandidate(results).lon,
                      use_cache |-> TRUE])
    /\ Pure

get_weather_for_location_L337(p) ==
    /\ At(p, "get_weather_for_location", "L337")
    /\ Return(p, [t |-> "tuple", weather |-> retv[p], results |-> Top(p).l.results])
    /\ Pure

----------------------------------------------------------------------------
(* The callers and the clock *)

\* The operations a caller can start, with their arguments.
Operations ==
    {[fn |-> "get_current_weather",
      a |-> [lat |-> c[1], lon |-> c[2], use_cache |-> u]] :
        c \in Coords, u \in BOOLEAN}
    \cup {[fn |-> "get_hourly_forecast",
           a |-> [lat |-> c[1], lon |-> c[2], use_cache |-> u]] :
        c \in Coords, u \in BOOLEAN}
    \cup {[fn |-> "get_daily_forecast",
           a |-> [lat |-> c[1], lon |-> c[2], days |-> d, use_cache |-> u]] :
        c \in Coords, d \in DaysArgs, u \in BOOLEAN}
    \cup {[fn |-> "geocode_location", a |-> [location_name |-> q]] : q \in Queries}
    \cup {[fn |-> "get_weather_for_location", a |-> [location_name |-> q]] :
        q \in Queries}

\* The operations and answers of SpecConc: the weather fetches, cached or not,
\* the daily forecast with its fallback, and answers that fail or succeed.
ConcOperations ==
    {o \in Operations :
        /\ o.fn \in {"get_current_weather", "get_hourly_forecast", "get_daily_forecast"}
        /\ (o.fn = "get_daily_forecast" => o.a.days = 1 /\ o.a.use_cache)}
ConcOutcomes ==
    {Transport(<<"timed out">>), Http(500, NoBody)}
    \cup {Http(200, WeatherDoc(TRUE, v)) : v \in Vers}
    \cup {Http(200, ForecastDoc(TRUE, l)) : l \in HourlyLists}
    \cup {Http(200, DailyDoc(TRUE, l)) : l \in DailyLists}

\* Caller q has had its operation and the awaiting code has its result.
Finished(q) == op[q] # None /\ stack[q] = <<>>
Done == [fn |-> "done"]

\* A caller awaits its operation: the coroutine runs when the loop is free.
\* What the callers that have finished were given has been consumed by then
\* and is no longer recorded.
Start(p, o) ==
    /\ LoopFree
    /\ op[p] = None
    /\ running' = p
    /\ stack' = [stack EXCEPT ![p] = <<NewFrame(o.fn, o.a)>>]
    /\ op' = [q \in Procs |->
                IF q = p THEN o ELSE IF Finished(q) THEN Done ELSE op[q]]
    /\ result' = [q \in Procs |->
                IF q = p THEN Pending ELSE IF Finished(q) THEN None ELSE result[q]]
    /\ calls' = [q \in Procs |->
                IF q = p \/ Finished(q) THEN <<>> ELSE calls[q]]
    /\ UNCHANGED <<retv, exc, cache, now, api_key, tz, driverVars>>

\* The running coroutine is about to read the clock (cache.py 35 and 51).
ReadsClock(p) ==
    /\ stack[p] # <<>>
    /\ <<Top(p).fn, Top(p).pc>> \in
            {<<"SimpleCache.get", "L30">>, <<"SimpleCache.set", "L50">>}

\* time.time() moves on. While a coroutine runs nothing else reads the clock,
\* so the time that passes during its run is added right before its next read.
Tick ==
    /\ now < MaxTime
    /\ IF running = 0 THEN TRUE ELSE ReadsClock(running)
    /\ now' = now + 1
    /\ UNCHANGED <<cache, clientVars, driverVars>>

Init ==
    /\ cache = [x \in {} |-> None]
    /\ now = 0
    /\ clast = [op |-> "init"]
    /\ lastSet = [k \in CKeys |-> NoSet]
    /\ ClientIdle

\* The statements of the operations, the cache and the dispatcher.
Step(p) ==
    \/ Propagate(p)
    \/ SimpleCache_get_L30(p)
    \/ SimpleCache_get_L36(p)
    \/ SimpleCache_set_L50(p)
    \/ SimpleCache_set_L52(p)
    \/ request_L95(p)
    \/ request_L100(p)
    \/ request_L101(p)
    \/ request_L114(p)
    \/ get_current_weather_L131(p)
    \/ get_current_weather_L135(p)
    \/ get_current_weather_L138(p)
    \/ get_current_weather_L140(p)
    \/ get_current_weather_L143(p)
    \/ get_hourly_forecast_L159(p)
    \/ get_hourly_forecast_L163(p)
    \/ get_hourly_forecast_L166(p)
    \/ get_hourly_forecast_L168(p)
    \/ get_hourly_forecast_L171(p)
    \/ get_daily_forecast_L192(p)
    \/ get_daily_forecast_L196(p)
    \/ get_daily_forecast_L199(p)
    \/ get_daily_forecast_L203(p)
    \/ get_daily_forecast_L205(p)
    \/ get_daily_forecast_L207(p)
    \/ get_daily_forecast_L208(p)
    \/ get_daily_forecast_L210(p)
    \/ geocode_location_L292(p)
    \/ geocode_location_L300(p)
    \/ geocode_location_L306(p)
    \/ geocode_location_L311(p)
    \/ geocode_location_L313(p)
    \/ geocode_location_L318(p)
    \/ get_weather_for_location_L332(p)
    \/ get_weather_for_location_L333(p)
    \/ get_weather_for_location_L337(p)

\* Caller p's turn in Spec: every caller before it has finished.
Turn(p) == \A q \in Procs : q < p => Finished(q)

\* Spec: the callers await their operations one after the other, and the
\* provider answers in every way.
Next ==
    \/ \E p \in Procs, o \in Operations : Turn(p) /\ Start(p, o)
    \/ Tick
    \/ \E p \in Procs, outcome \in AllOutcomes : request_await(p, outcome)
    \/ \E p \in Procs : request_cancelled(p)
    \/ \E p \in Procs : Step(p)

Spec == Init /\ [][Next]_vars

\* The statements the operations of SpecConc go through.
ConcStep(p) ==
    \/ Propagate(p)
    \/ SimpleCache_get_L30(p)
    \/ SimpleCache_get_L36(p)
    \/ SimpleCache_set_L50(p)
    \/ SimpleCache_set_L52(p)
    \/ request_L95(p)
    \/ request_L100(p)
    \/ request_L101(p)
    \/ request_L114(p)
    \/ get_current_weather_L131(p)
    \/ get_current_weather_L135(p)
    \/ get_current_weather_L138(p)
    \/ get_current_weather_L140(p)
    \/ get_current_weather_L143(p)
    \/ get_hourly_forecast_L159(p)
    \/ get_hourly_forecast_L163(p)
    \/ get_hourly_forecast_L166(p)
    \/ get_hourly_forecast_L168(p)
    \/ get_hourly_forecast_L171(p)
    \/ get_daily_forecast_L192(p)
    \/ get_daily_forecast_L196(p)
    \/ get_daily_forecast_L199(p)
    \/ get_daily_forecast_L203(p)
    \/ get_daily_forecast_L205(p)
    \/ get_daily_forecast_L207(p)
    \/ get_daily_forecast_L208(p)
    \/ get_daily_forecast_L210(p)

\* SpecConc: the callers of Procs await operations concurrently on one client.
NextConc ==
    \/ \E p \in Procs, o \in ConcOperations : Start(p, o)
    \/ Tick
    \/ \E p \in Procs, outcome \in ConcOutcomes : request_await(p, outcome)
    \/ \E p \in Procs : ConcStep(p)

SpecConc == Init /\ [][NextConc]_vars

\* SpecFetch: the three weather fetches alone, one caller after the other, for
\* two places a fraction of a degree apart and for day counts from 0 (the
\* --days option of cli.py takes any integer).
FetchCoords == {<<10, 20>>, <<11, 20>>}
FetchDays == {0, 1, 2}
FetchOperations ==
    {[fn |-> "get_current_weather",
      a |-> [lat |-> c[1], lon |-> c[2], use_cache |-> u]] :
        c \in FetchCoords, u \in BOOLEAN}
    \cup {[fn |-> "get_hourly_forecast",
           a |-> [lat |-> c[1], lon |-> c[2], use_cache |-> u]] :
        c \in FetchCoords, u \in BOOLEAN}
    \cup {[fn |-> "get_daily_forecast",
           a |-> [lat |-> 10, lon |-> 20, days |-> d, use_cache |-> u]] :
        d \in FetchDays, u \in BOOLEAN}

NextFetch ==
    \/ \E p \in Procs, o \in FetchOperations : Turn(p) /\ Start(p, o)
    \/ Tick
    \/ \E p \in Procs, outcome \in ConcOutcomes : request_await(p, outcome)
    \/ \E p \in Procs : ConcStep(p)

SpecFetch == Init /\ [][NextFetch]_vars

\* SpecCred: clients that differ in their API key only, each with its callers
\* one after the other.
CredKeys == {"key-A", "key-B"}

InitCred ==
    /\ cache = [x \in {} |-> None]
    /\ now = 0
    /\ clast = [op |-> "init"]
    /\ lastSet = [k \in CKeys |-> NoSet]
    /\ stack = [p \in Procs |-> <<>>]
    /\ retv = [p \in Procs |-> None]
    /\ exc = [p \in Procs |-> None]
    /\ running = 0
    /\ result = [p \in Procs |-> None]
    /\ op = [p \in Procs |-> None]
    /\ calls = [p \in Procs |-> <<>>]
    /\ api_key \in CredKeys
    /\ tz = 0

CredOperations ==
    {o \in Operations :
        /\ o.fn = "get_daily_forecast" => o.a.days = 1
        /\ o.fn \in {"geocode_location", "get_weather_for_location"} =>
                o.a.location_name = <<"B","a","t","h",","," ","U","K">>}

NextCred ==
    \/ \E p \in Procs, o \in CredOperations : Turn(p) /\ Start(p, o)
    \/ Tick
    \/ \E p \in Procs, outcome \in AllOutcomes : request_await(p, outcome)
    \/ \E p \in Procs : request_cancelled(p)
    \/ \E p \in Procs : Step(p)

SpecCred == InitCred /\ [][NextCred]_vars

\* SpecLive: the operations of SpecCred with one API key, where the loop
\* keeps running the coroutine that holds it and every GET that is awaited
\* ends at last, by an answer, a transport failure (httpx's timeout among them,
\* client.py 46 and 65) or the cancellation of the task.
NextLive ==
    \/ \E p \in Procs, o \in CredOperations : Turn(p) /\ Start(p, o)
    \/ Tick
    \/ \E p \in Procs, outcome \in AllOutcomes : request_await(p, outcome)
    \/ \E p \in Procs : request_cancelled(p)
    \/ \E p \in Procs : Step(p)

SpecLive ==
    /\ Init
    /\ [][NextLive]_vars
    /\ WF_vars(\E p \in Procs : Step(p))
    /\ WF_vars(\E p \in Procs, outcome \in AllOutcomes : request_await(p, outcome))

----------------------------------------------------------------------------
(* Claims about the dispatcher and the operations, under Spec *)

\* Caller p's _request has raised and the exception has not left its frame:
\* Top(p).l is the answer the GET ended with.
RequestRaised(p) ==
    /\ stack[p] # <<>>
    /\ Top(p).fn = "_request"
    /\ exc[p] # None

\* The step taken by caller p raises an exception of class cls.
RaisesClass(p, cls) == exc'[p] # None /\ exc'[p].cls = cls

\* C5: for every endpoint, _request handling a response with status 401 raises
\* APIKeyError, with 404 LocationNotFoundError, with 429 RateLimitError, and
\* handling a 2xx response it raises none of the three.
C5_StatusMapping ==
    [][\A p \in Procs :
        At(p, "_request", "L101") =>
            LET status == Top(p).l.status
            IN  /\ (status = 401 => RaisesClass(p, "APIKeyError"))
                /\ (status = 404 => RaisesClass(p, "LocationNotFoundError"))
                /\ (status = 429 => RaisesClass(p, "RateLimitError"))
                /\ (Is2xx(status) =>
                        /\ ~RaisesClass(p, "APIKeyError")
                        /\ ~RaisesClass(p, "LocationNotFoundError")
                        /\ ~RaisesClass(p, "RateLimitError"))
    ]_vars

\* The geocoding endpoint answered 404 and _request raised
\* LocationNotFoundError.
C5_Witness ==
    \E p \in Procs :
        /\ RequestRaised(p)
        /\ Top(p).a.endpoint = "/geo/1.0/direct"
        /\ Top(p).l.t = "http"
        /\ Top(p).l.status = 404
        /\ exc[p].cls = "LocationNotFoundError"

\* C6 as stated: a transport failure fails with a kind of its own, not the one
\* other non-2xx statuses fail with (the code's WeatherAPIError), and the
\* error of a non-2xx status other than 401/404/429 carries the numeric
\* status as a value the caller can read.
C6_Original ==
    \A p \in Procs :
        RequestRaised(p) =>
            /\ (Top(p).l.t = "transport" => exc[p].cls # "WeatherAPIError")
            /\ (Top(p).l.t = "http" /\ Top(p).l.status \notin {401, 404, 429}
                    /\ ~Is2xx(Top(p).l.status)
                    => "status" \in DOMAIN exc[p])

\* The operation of caller p has ended and left result[p] to the caller.
Ended(p) == Finished(p) /\ op[p] # Done

\* The classes of the closed taxonomy: InvalidCredential, LocationNotFound,
\* RateLimited, and WeatherAPIError for NetworkError and ProviderError.
TaxonomyClasses ==
    {"APIKeyError", "LocationNotFoundError", "RateLimitError", "WeatherAPIError"}

\* C7 as stated: every operation ends by returning its typed entity or by
\* failing with an error of the closed taxonomy, also when a 2xx body is not
\* JSON or lacks required fields.
C7_Original ==
    \A p \in Procs :
        Ended(p) =>
            \/ result[p].t \in {"CurrentWeather", "HourlyForecast",
                                "DailyForecast", "list", "tuple"}
            \/ result[p].t = "exc" /\ result[p].cls \in TaxonomyClasses

\* The native daily call of caller p did not succeed: the GET failed, or its
\* answer was not a daily forecast document.
NativeFailed(p) ==
    /\ op[p].fn = "get_daily_forecast"
    /\ calls[p] # <<>>
    /\ calls[p][1].endpoint = "/data/2.5/forecast/daily"
    /\ LET got == calls[p][1].gets[1]
       IN  \/ got.t = "transport"
           \/ got.t = "http" /\ ~Is2xx(got.status)
           \/ got.t = "http" /\ Is2xx(got.status) /\ ~DailyForecast(got.body).ok

\* C8 as stated: when the native daily call does not succeed, for any
\* failure, get_daily_forecast does not propagate that failure: it fails only
\* if the hourly forecast of its fallback could not be fetched, and once that
\* forecast has been fetched it returns the Aggregator's DailyForecast of it.
C8_Original ==
    \A p \in Procs :
        (Ended(p) /\ NativeFailed(p)) =>
            IF Len(calls[p]) = 2 /\ calls[p][2].gets[1].t = "http"
                 /\ calls[p][2].gets[1].status = 200
                 /\ HourlyForecast(calls[p][2].gets[1].body).ok
            THEN result[p] =
                    AggregateHourlyToDaily(
                        HourlyForecast(calls[p][2].gets[1].body).v,
                        op[p].a.days, tz)
            ELSE result[p].t = "exc" => Len(calls[p]) = 2

\* A GET that ended in a dispatcher failure: a transport failure or a non-2xx
\* status.
FailedGet(got) ==
    \/ got.t = "transport"
    \/ got.t = "http" /\ ~Is2xx(got.status)

\* The error _request raises for a failed GET.
DispatcherError(got) ==
    IF got.t = "transport" THEN NetworkError(got.detail) ELSE StatusError(got.status)

\* C9: a failed GET to any endpoint but the native daily one is the last
\* network call of its operation, and the operation ends by raising the very
\* error the dispatcher raised for it: no retry, no fallback, no narrowing of
\* the geocoding query after a failed (not empty) answer.
C9_NoRecovery ==
    \A p \in Procs :
        \A i \in 1..Len(calls[p]) :
            (/\ calls[p][i].endpoint # "/data/2.5/forecast/daily"
             /\ calls[p][i].gets # <<>>
             /\ FailedGet(calls[p][i].gets[1])) =>
                /\ i = Len(calls[p])
                /\ Len(calls[p][i].gets) = 1
                /\ (Ended(p) => result[p] = DispatcherError(calls[p][i].gets[1]))

\* geocode_location of a name with a comma got status 500 for its first query
\* and ended with that error after this one call.
C9_Witness ==
    \E p \in Procs :
        /\ Ended(p)
        /\ op[p].fn = "geocode_location"
        /\ HasComma(op[p].a.location_name)
        /\ Len(calls[p]) = 1
        /\ calls[p][1].gets = <<Http(500, NoBody)>>
        /\ result[p] = Exc("WeatherAPIError", <<"API error: ", <<"5", "0", "0">>>>)

\* C10: every invocation of _request sends exactly one GET, however it ends:
\* none before line 100 is reached, one from then on and for ever after.
C10_OneGetPerRequest ==
    \A p \in Procs :
        \A i \in 1..Len(calls[p]) :
            IF /\ i = Len(calls[p])
               /\ stack[p] # <<>>
               /\ Top(p).fn = "_request"
               /\ Top(p).pc = "L100"
            THEN calls[p][i].gets = <<>>
            ELSE Len(calls[p][i].gets) = 1

\* An operation ended after two invocations of _request, the first answered
\* with status 500 and the second failing in transport, one GET each.
C10_Witness ==
    \E p \in Procs :
        /\ Ended(p)
        /\ Len(calls[p]) = 2
        /\ calls[p][1].gets = <<Http(500, NoBody)>>
        /\ calls[p][2].gets = <<Transport(<<"timed out">>)>>

----------------------------------------------------------------------------
(* Claims about concurrent callers, under SpecConc *)

\* Caller p is inside SimpleCache.get or SimpleCache.set.
InCacheOp(p) ==
    /\ stack[p] # <<>>
    /\ Top(p).fn \in {"SimpleCache.get", "SimpleCache.set"}

----------------------------------------------------------------------------
(* Claims about the cache in the operations, under Spec *)

\* The three weather fetches: the line where each tests what the cache gave,
\* and the key each uses.
CheckLine(fn) ==
    CASE fn = "get_current_weather" -> "L135"
      [] fn = "get_hourly_forecast" -> "L163"
      [] fn = "get_daily_forecast" -> "L196"
OpKey(fn, a) ==
    CASE fn = "get_current_weather" -> <<"current:", a.lat, a.lon>>
      [] fn = "get_hourly_forecast" -> <<"hourly:", a.lat, a.lon>>
      [] fn = "get_daily_forecast" -> <<"daily:", a.lat, a.lon, a.days>>
WeatherFetches == {"get_current_weather", "get_hourly_forecast", "get_daily_forecast"}

\* The frame below the top of caller p's stack.
Below(p) == stack[p][Len(stack[p]) - 1]

\* C11: with use_cache the three weather fetches first read the cache under
\* their key; when the entry read is there and unexpired the read gives its
\* value (in the step that reads, not one in which only the clock moves) and
\* the fetch returns that value at once: no invocation of _request
\* is added (so an operation served from the cache ends with none at all, for
\* get_daily_forecast neither the native nor the hourly one).
C11_CacheHit ==
    [][\A p \in Procs : \A fn \in WeatherFetches :
        /\ (At(p, fn, FirstPc(fn)) /\ Top(p).a.use_cache) =>
                /\ Len(stack'[p]) = Len(stack[p]) + 1
                /\ stack'[p][Len(stack'[p])].fn = "SimpleCache.get"
                /\ stack'[p][Len(stack'[p])].a.key = OpKey(fn, Top(p).a)
                /\ stack'[p][Len(stack[p])].pc = CheckLine(fn)
        /\ (/\ At(p, "SimpleCache.get", "L30")
            /\ now' = now
            /\ Below(p).fn = fn
            /\ Top(p).a.key \in DOMAIN cache
            /\ now <= cache[Top(p).a.key].expiry) =>
                /\ retv'[p] = cache[Top(p).a.key].value
                /\ stack'[p] = Popped(stack[p])
                /\ calls' = calls
        /\ (At(p, fn, CheckLine(fn)) /\ retv[p] # None) =>
                /\ calls' = calls
                /\ stack'[p] = Popped(stack[p])
                /\ IF Len(stack[p]) = 1
                   THEN result'[p] = retv[p] /\ calls[p] = <<>>
                   ELSE retv'[p] = retv[p]
    ]_vars

\* get_daily_forecast with use_cache ended with a forecast and without any
\* invocation of _request: it was served from the cache.
C11_Witness ==
    \E p \in Procs :
        /\ Ended(p)
        /\ op[p].fn = "get_daily_forecast"
        /\ op[p].a.use_cache
        /\ calls[p] = <<>>
        /\ result[p].t = "DailyForecast"

\* C12 as stated: every DailyForecast that get_daily_forecast(lat, lon, days)
\* returns, from the native endpoint, the fallback or the cache, has at most
\* days entries.
C12_Original ==
    \A p \in Procs :
        (Ended(p) /\ op[p].fn = "get_daily_forecast"
            /\ result[p].t = "DailyForecast") =>
                Len(result[p].list) <= op[p].a.days

\* For get_weather_for_location of caller p: a current-weather request is
\* the last request, every request before it is a geocoding request, and its
\* coordinates are those of the first candidate of the non-empty list that
\* geocode_location returned (kept in the operation's frame, then in its
\* result).
FetchesFirstCandidate(p) ==
    (op[p] # None /\ op[p].fn = "get_weather_for_location") =>
        \A i \in 1..Len(calls[p]) :
            calls[p][i].endpoint = "/data/2.5/weather" =>
                /\ i = Len(calls[p])
                /\ \A j \in 1..(i - 1) : calls[p][j].endpoint = "/geo/1.0/direct"
                /\ stack[p] # <<>> =>
                        /\ stack[p][1].l.results.items # <<>>
                        /\ calls[p][i].params.lat = stack[p][1].l.results.items[1].lat
                        /\ calls[p][i].params.lon = stack[p][1].l.results.items[1].lon
                /\ (Ended(p) /\ result[p].t = "tuple") =>
                        /\ result[p].results.items # <<>>
                        /\ calls[p][i].params.lat = result[p].results.items[1].lat
                        /\ calls[p][i].params.lon = result[p].results.items[1].lon

\* The resolution of get_weather_for_location of caller p has failed: the
\* exception is in the operation's own frame, at its call of geocode_location.
ResolutionFailed(p) ==
    /\ running = p
    /\ Len(stack[p]) = 1
    /\ Top(p).fn = "get_weather_for_location"
    /\ Top(p).pc = "L333"
    /\ exc[p] # None

\* C18: get_weather_for_location requests the current weather only after
\* geocode_location has given a non-empty list, for the latitude and
\* longitude of its first candidate; when the resolution fails no
\* current-weather request has been or is made and the operation ends with
\* the resolution's error.
C18_ResolveThenFetch ==
    [][\A p \in Procs :
        /\ FetchesFirstCandidate(p)'
        /\ ResolutionFailed(p) =>
                /\ result'[p] = exc[p]
                /\ stack'[p] = <<>>
                /\ calls'[p] = calls[p]
                /\ \A i \in 1..Len(calls[p]) :
                        calls[p][i].endpoint = "/geo/1.0/direct"
    ]_vars

\* get_weather_for_location got two candidates from the provider, requested
\* the current weather for the coordinates of the first and returned both.
C18_Witness ==
    \E p \in Procs :
        /\ Ended(p)
        /\ op[p].fn = "get_weather_for_location"
        /\ result[p].t = "tuple"
        /\ Len(result[p].results.items) = 2
        /\ Len(calls[p]) = 2
        /\ calls[p][1].endpoint = "/geo/1.0/direct"
        /\ calls[p][2].endpoint = "/data/2.5/weather"
        /\ calls[p][2].params.lat = result[p].results.items[1].lat
        /\ result[p].results.items[1].lat # result[p].results.items[2].lat

----------------------------------------------------------------------------
(* SpecGeo: the Resolver alone, over more location names *)

\* "Rome"; "Bath, UK"; "bath, uk"; "Bath,UK"; "Reno, USA";
\* "Reno, United States"; "Bath, United Kingdom"; "Kyiv, UKRAINE";
\* "Bath, UK, Ohio"; "Bath , UK"; "Bath"
GeoQueries ==
    { <<"R","o","m","e">>,
      <<"B","a","t","h",","," ","U","K">>,
      <<"b","a","t","h",","," ","u","k">>,
      <<"B","a","t","h",",","U","K">>,
      <<"R","e","n","o",","," ","U","S","A">>,
      <<"R","e","n","o",","," ","U","n","i","t","e","d"," ","S","t","a","t","e","s">>,
      <<"B","a","t","h",","," ","U","n","i","t","e","d"," ","K","i","n","g","d","o","m">>,
      <<"K","y","i","v",","," ","U","K","R","A","I","N","E">>,
      <<"B","a","t","h",","," ","U","K",","," ","O","h","i","o">>,
      <<"B","a","t","h"," ",","," ","U","K">>,
      <<"B","a","t","h">> }

GeoOperations ==
    {[fn |-> "geocode_location", a |-> [location_name |-> q]] : q \in GeoQueries}

\* The statements geocode_location goes through. Its cache entries live for
\* GeocodeTtl seconds, longer than the clock of the model runs, so the evicting
\* branch of SimpleCache.get is not among them.
GeoStep(p) ==
    \/ Propagate(p)
    \/ SimpleCache_get_L30(p)
    \/ SimpleCache_set_L50(p)
    \/ SimpleCache_set_L52(p)
    \/ request_L95(p)
    \/ request_L100(p)
    \/ request_L101(p)
    \/ request_L114(p)
    \/ geocode_location_L292(p)
    \/ geocode_location_L300(p)
    \/ geocode_location_L306(p)
    \/ geocode_location_L311(p)
    \/ geocode_location_L313(p)
    \/ geocode_location_L318(p)

\* The callers resolve one name each, one after the other.
NextGeo ==
    \/ \E p \in Procs, o \in GeoOperations : Turn(p) /\ Start(p, o)
    \/ Tick
    \/ \E p \in Procs, outcome \in Outcomes("/geo/1.0/direct") :
            request_await(p, outcome)
    \/ \E p \in Procs : GeoStep(p)

SpecGeo == Init /\ [][NextGeo]_vars

----------------------------------------------------------------------------
(* Claims about the Resolver, under SpecGeo *)

\* The alias table of the specification: alias, ISO code.
Aliases ==
    { <<<<"U","K">>, <<"G","B">>>>, <<<<"U","S","A">>, <<"U","S">>>>,
      <<<<"U","n","i","t","e","d"," ","S","t","a","t","e","s">>, <<"U","S">>>>,
      <<<<"U","n","i","t","e","d"," ","K","i","n","g","d","o","m">>, <<"G","B">>>> }
Separators == { <<",", " ">>, <<",">> }

EndsWith(s, suffix) ==
    /\ Len(s) >= Len(suffix)
    /\ SubSeq(s, Len(s) - Len(suffix) + 1, Len(s)) = suffix

\* The name with its trailing country token, when that token is exactly an
\* alias written after ", " or ",", replaced by the ISO code; the name itself
\* otherwise.
TrailingRewrite(name) ==
    IF \E al \in Aliases, sep \in Separators : EndsWith(name, sep \o al[1])
    THEN LET al == CHOOSE x \in Aliases :
                        \E sep \in Separators : EndsWith(name, sep \o x[1])
         IN  SubSeq(name, 1, Len(name) - Len(al[1])) \o al[2]
    ELSE name

\* Caller p's operation is geocode_location and has sent its first query.
FirstQuerySent(p) ==
    /\ op[p] # None
    /\ op[p].fn = "geocode_location"
    /\ calls[p] # <<>>

\* C13: when the name ends in an alias (UK, USA, United States, United
\* Kingdom) written after ", " or ",", the first query geocode_location sends
\* has q equal to the name with that alias replaced by its ISO code, and is
\* not the name as typed.
C13_AliasNormalized ==
    \A p \in Procs :
        FirstQuerySent(p) =>
            \A al \in Aliases, sep \in Separators :
                EndsWith(op[p].a.location_name, sep \o al[1]) =>
                    /\ calls[p][1].endpoint = "/geo/1.0/direct"
                    /\ calls[p][1].params.q =
                            SubSeq(op[p].a.location_name, 1,
                                   Len(op[p].a.location_name) - Len(al[1])) \o al[2]
                    /\ calls[p][1].params.q # op[p].a.location_name

\* "Reno, United States" was sent as "Reno, US".
C13_Witness ==
    \E p \in Procs :
        /\ FirstQuerySent(p)
        /\ op[p].a.location_name = <<"R","e","n","o",","," ","U","n","i","t","e","d"," ","S","t","a","t","e","s">>
        /\ calls[p][1].params.q = <<"R","e","n","o",","," ","U","S">>

\* C14 as stated: normalization changes only a trailing country token that is
\* exactly an alias: every other name, and all other text of a name, is sent
\* unchanged.
C14_Original ==
    \A p \in Procs :
        FirstQuerySent(p) =>
            calls[p][1].params.q = TrailingRewrite(op[p].a.location_name)

\* The provider's answer to an invocation: a 200 with zero candidates.
EmptyAnswer(inv) == inv.gets = <<Http(200, GeoDoc(<<>>))>>

\* The text before the first comma, as it stands.
UpToComma(name) == BeforeFirstComma(name)

WithComma(name) == \E i \in 1..Len(name) : name[i] = ","

\* The requests geocode_location of caller p makes after an empty first
\* answer, the narrowed query being narrow(name): one more when the name has a
\* comma, with q = narrow(name) and the same limit, and LocationNotFound when
\* that answer is empty too; none when the name has no comma, and
\* LocationNotFound. No second request is made in any other case.
RetriesOnce(p, narrow(_)) ==
    (op[p] # None /\ op[p].fn = "geocode_location") =>
        LET name == op[p].a.location_name
            notFound == Exc("LocationNotFoundError", <<"Location not found: ", name>>)
        IN  /\ Len(calls[p]) <= 2
            /\ Len(calls[p]) = 2 => EmptyAnswer(calls[p][1]) /\ WithComma(name)
            /\ (calls[p] # <<>> /\ EmptyAnswer(calls[p][1])) =>
                    IF WithComma(name)
                    THEN /\ Ended(p) => Len(calls[p]) = 2
                         /\ Len(calls[p]) = 2 =>
                                /\ calls[p][2].endpoint = "/geo/1.0/direct"
                                /\ calls[p][2].params = [q |-> narrow(name), limit |-> 5]
                                /\ (Ended(p) /\ EmptyAnswer(calls[p][2])) =>
                                        result[p] = notFound
                    ELSE /\ Len(calls[p]) = 1
                         /\ Ended(p) => result[p] = notFound

\* C15 as stated: the narrowed query is the substring before the first comma.
C15_Original == \A p \in Procs : RetriesOnce(p, UpToComma)

\* C15 amended: the narrowed query is the substring before the first comma
\* with the whitespace around it removed.
C15_RetryOnce == \A p \in Procs : RetriesOnce(p, LAMBDA n : StrStrip(UpToComma(n)))

\* "Bath , UK" got zero candidates, was asked again as "Bath", got zero
\* candidates again and ended in LocationNotFound.
C15_Witness ==
    \E p \in Procs :
        /\ Ended(p)
        /\ op[p].fn = "geocode_location"
        /\ op[p].a.location_name = <<"B","a","t","h"," ",","," ","U","K">>
        /\ Len(calls[p]) = 2
        /\ EmptyAnswer(calls[p][1])
        /\ EmptyAnswer(calls[p][2])
        /\ calls[p][2].params.q = <<"B","a","t","h">>
        /\ result[p].t = "exc"
        /\ result[p].cls = "LocationNotFoundError"

\* C16: every list geocode_location returns and every list the cache holds
\* under a geocode key has at least one candidate, and an operation whose last
\* answer from the provider had zero candidates ends in LocationNotFound.
C16_NoEmptySuccess ==
    /\ \A k \in DOMAIN cache :
            k[1] = "geocode:" => cache[k].value.t = "list" /\ cache[k].value.items # <<>>
    /\ \A p \in Procs :
        (Ended(p) /\ op[p].fn = "geocode_location") =>
            /\ result[p].t = "list" => result[p].items # <<>>
            /\ (calls[p] # <<>> /\ EmptyAnswer(calls[p][Len(calls[p])])) =>
                    /\ result[p].t = "exc"
                    /\ result[p].cls = "LocationNotFoundError"

\* "Rome" got zero candidates and ended in LocationNotFound after one request,
\* leaving nothing in the cache under its key.
C16_Witness ==
    \E p \in Procs :
        /\ Ended(p)
        /\ op[p].fn = "geocode_location"
        /\ op[p].a.location_name = <<"R","o","m","e">>
        /\ Len(calls[p]) = 1
        /\ EmptyAnswer(calls[p][1])
        /\ result[p].t = "exc"
        /\ result[p].cls = "LocationNotFoundError"
        /\ <<"geocode:", <<"r","o","m","e">>>> \notin DOMAIN cache

\* The key of the specification: the name as typed, lowercased.
TypedKey(name) == <<"geocode:", StrLower(name)>>

\* C17: geocode_location reads the cache under the lowercased name as typed
\* and stores its list under that key with expiry 86400 seconds after the
\* write, whatever the default TTL; when the entry read is there and
\* unexpired the operation returns its list and adds no request, whatever
\* query it would have sent.
C17_GeocodeCached ==
    [][\A p \in Procs :
        /\ At(p, "geocode_location", "L292") =>
                /\ Len(stack'[p]) = 2
                /\ stack'[p][2].fn = "SimpleCache.get"
                /\ stack'[p][2].a.key = TypedKey(Top(p).a.location_name)
        /\ (At(p, "SimpleCache.set", "L52") /\ Below(p).fn = "geocode_location") =>
                LET k == TypedKey(Below(p).a.location_name)
                IN  /\ k \in DOMAIN cache'
                    /\ cache'[k] = [value |-> Below(p).l.results,
                                    expiry |-> now + 86400]
                    /\ \A j \in (DOMAIN cache') \ {k} :
                            j \in DOMAIN cache /\ cache'[j] = cache[j]
        /\ (/\ At(p, "SimpleCache.get", "L30")
            /\ now' = now
            /\ Below(p).fn = "geocode_location"
            /\ TypedKey(Below(p).a.location_name) \in DOMAIN cache
            /\ now <= cache[TypedKey(Below(p).a.location_name)].expiry) =>
                retv'[p] = cache[TypedKey(Below(p).a.location_name)].value
        /\ (At(p, "geocode_location", "L300") /\ retv[p] # None) =>
                /\ result'[p] = retv[p]
                /\ stack'[p] = <<>>
                /\ calls[p] = <<>>
                /\ calls' = calls
    ]_vars

\* "bath, uk", which would have been sent as typed, was answered from the
\* cache without a request, after the default TTL had run out; no entry but
\* the one under "geocode:bath, uk" was there, and "Bath, UK" shares that key.
C17_Witness ==
    \E p \in Procs :
        /\ Ended(p)
        /\ op[p].fn = "geocode_location"
        /\ op[p].a.location_name = <<"b","a","t","h",","," ","u","k">>
        /\ calls[p] = <<>>
        /\ result[p].t = "list"
        /\ DOMAIN cache = {TypedKey(<<"B","a","t","h",","," ","U","K">>)}
        /\ result[p] = cache[TypedKey(<<"b","a","t","h",","," ","u","k">>)].value
        /\ now > CacheTtl

----------------------------------------------------------------------------
(* SpecAgg: the Aggregator alone, applied to hourly forecasts *)

\* The forecasts: n samples every 3 hours from time start, with temperatures
\* and precipitation probabilities that rise and fall along the list.
ThreeHours == 3 * 3600
AggStarts == {0, 3 * ThreeHours, 7 * ThreeHours}
AggLengths == {0, 1, 8, 9, 16, 24, 25}
AggPatterns == {3, 7}
AggDays == {1, 2, 3}
AggOffsets == {0, 3600, 0 - 5 * 3600}

Hourly(start, n, pat) ==
    [t |-> "HourlyForecast",
     list |-> [i \in 1..n |->
                Sample(start + (i - 1) * ThreeHours,
                       ((i * pat) % 11) - 3, ((i * pat) % 7) - 2,
                       (i * pat) % 5, i)]]

AggInputs == {Hourly(st, n, pat) : st \in AggStarts, n \in AggLengths, pat \in AggPatterns}

InitAgg ==
    /\ cache = [x \in {} |-> None]
    /\ now = 0
    /\ clast = [op |-> "init"]
    /\ lastSet = [k \in CKeys |-> NoSet]
    /\ stack = [p \in Procs |-> <<>>]
    /\ retv = [p \in Procs |-> None]
    /\ exc = [p \in Procs |-> None]
    /\ running = 0
    /\ result = [p \in Procs |-> None]
    /\ op = [p \in Procs |-> None]
    /\ calls = [p \in Procs |-> <<>>]
    /\ api_key \in ApiKeys
    /\ tz \in AggOffsets

\* self._aggregate_hourly_to_daily(hourly, days) in a process whose local
\* timezone is tz.
Aggregate(hourly, days) ==
    /\ clast' = [op |-> "aggregate", hourly |-> hourly, days |-> days,
                 ret |-> AggregateHourlyToDaily(hourly, days, tz)]
    /\ UNCHANGED <<cache, now, lastSet, clientVars>>

NextAgg == \E hourly \in AggInputs, days \in AggDays : Aggregate(hourly, days)

SpecAgg == InitAgg /\ [][NextAgg]_vars

----------------------------------------------------------------------------
(* Claims about the Aggregator, under SpecAgg *)

\* The local calendar date of time dt, as a day number: the day d whose local
\* midnight d * 86400 - tz is the last one not after dt.
DateOf(dt) ==
    CHOOSE d \in -2..5 : d * 86400 - tz <= dt /\ dt < (d + 1) * 86400 - tz

\* The first days * 8 samples of the last call's forecast, their dates, and
\* the samples of one date in the order of the list.
Window ==
    LET l == clast.hourly.list
        n == clast.days * 8
    IN  SubSeq(l, 1, IF Len(l) < n THEN Len(l) ELSE n)
WindowDates == {DateOf(Window[i].dt) : i \in 1..Len(Window)}
Bucket(d) == SelectSeq(Window, LAMBDA x : DateOf(x.dt) = d)

\* C19: the Aggregator outputs min(days, D) summaries, D being the number of
\* distinct local dates among the first days * 8 samples: one per date, for
\* the earliest of these dates, in strictly ascending order; the samples from
\* index days * 8 on change nothing in the output.
C19_Buckets ==
    clast.op = "aggregate" =>
        LET out == clast.ret.list
            D == Cardinality(WindowDates)
            outDates == {d \in WindowDates :
                            \E i \in 1..Len(out) : out[i].dt = d * 86400 - tz}
        IN  /\ Len(out) = (IF clast.days < D THEN clast.days ELSE D)
            /\ clast.ret.cnt = Len(out)
            /\ \A i \in 1..Len(out) : \E d \in WindowDates : out[i].dt = d * 86400 - tz
            /\ \A i \in 1..Len(out), j \in 1..Len(out) : i < j => out[i].dt < out[j].dt
            /\ \A d \in outDates, e \in WindowDates \ outDates : d < e
            /\ clast.ret =
                    AggregateHourlyToDaily([clast.hourly EXCEPT !.list = Window],
                                           clast.days, tz)

\* 24 samples spanning 3 calendar days gave, with days = 3, 3 summaries.
C19_Witness ==
    /\ clast.op = "aggregate"
    /\ Len(clast.hourly.list) = 24
    /\ clast.days = 3
    /\ Cardinality(WindowDates) = 3
    /\ Len(clast.ret.list) = 3

\* The sum of a list of numbers, from its end.
RECURSIVE Total(_)
Total(s) == IF Len(s) = 0 THEN 0 ELSE Total(SubSeq(s, 1, Len(s) - 1)) + s[Len(s)]

C21_NightMornEve ==
    clast.op = "aggregate" =>
        \A i \in 1..Len(clast.ret.list) :
            LET e == clast.ret.list[i]
                b == Bucket(DateOf(e.dt))
                n == Len(b)
            IN  /\ n >= 1
                /\ e.temp.night = b[n].temp
                /\ e.temp.morn = b[1].temp
                /\ e.temp.eve = (IF n > 1 THEN b[n - 1].temp ELSE 0)
                /\ e.feels_like.night = b[n].feels_like
                /\ e.feels_like.morn = b[1].feels_like
                /\ e.feels_like.eve = (IF n > 1 THEN b[n - 1].feels_like ELSE 0)
                /\ n = 1 =>
                        /\ e.temp.eve = 0
                        /\ e.temp.morn = b[1].temp
                        /\ e.temp.night = b[1].temp
                        /\ e.temp.day = <<b[1].temp, 1>>

\* A forecast gave a bucket of 8 samples whose morning, evening and night
\* temperatures are three different numbers, and a bucket of one sample, with
\* a temperature other than 0, whose evening temperature is 0.
C21_Witness ==
    /\ clast.op = "aggregate"
    /\ \E i \in 1..Len(clast.ret.list) :
            LET e == clast.ret.list[i]
            IN  /\ Len(Bucket(DateOf(e.dt))) = 8
                /\ e.temp.morn # e.temp.eve
                /\ e.temp.eve # e.temp.night
                /\ e.temp.morn # e.temp.night
    /\ \E i \in 1..Len(clast.ret.list) :
            LET e == clast.ret.list[i]
            IN  /\ Len(Bucket(DateOf(e.dt))) = 1
                /\ e.temp.eve = 0
                /\ e.temp.night # 0
                /\ e.temp.night = e.temp.morn

\* C22: in every summary the pressure, humidity, condition, wind speed, wind
\* direction and cloud cover are those of the bucket's first sample; changing
\* any later sample of the bucket leaves these six fields as they are.
C22_FirstSampleFields ==
    clast.op = "aggregate" =>
        \A i \in 1..Len(clast.ret.list) :
            LET e == clast.ret.list[i]
                b == Bucket(DateOf(e.dt))
            IN  /\ Len(b) >= 1
                /\ e.pressure = b[1].pressure
                /\ e.humidity = b[1].humidity
                /\ e.weather = b[1].weather
                /\ e.speed = b[1].speed
                /\ e.deg = b[1].deg
                /\ e.clouds = b[1].clouds
                /\ \A k \in 2..Len(b) :
                        LET other == [b EXCEPT ![k] = Sample(b[k].dt, 0, 0, 0, 0)]
                            f == DailySummary(DateOf(e.dt), other, tz)
                        IN  /\ f.pressure = e.pressure
                            /\ f.humidity = e.humidity
                            /\ f.weather = e.weather
                            /\ f.speed = e.speed
                            /\ f.deg = e.deg
                            /\ f.clouds = e.clouds

\* A summary of a bucket of 8 samples, each with a pressure, a condition and
\* a wind of its own, carries those of the bucket's first sample, which is not
\* the first sample of the forecast.
C22_Witness ==
    /\ clast.op = "aggregate"
    /\ \E i \in 2..Len(clast.ret.list) :
            LET e == clast.ret.list[i]
                b == Bucket(DateOf(e.dt))
            IN  /\ Len(b) = 8
                /\ \A k \in 2..8 : b[k].pressure # b[1].pressure /\ b[k].weather # b[1].weather
                /\ e.pressure = b[1].pressure
                /\ e.weather = b[1].weather
                /\ e.pressure # clast.hourly.list[1].pressure

----------------------------------------------------------------------------
(* Claims about the weather fetches, under SpecFetch *)

\* The DailyForecast of no day at all.
EmptyDaily == [t |-> "DailyForecast", cnt |-> 0, list |-> <<>>]

\* Caller p's get_daily_forecast is in its fallback with an hourly forecast
\* that gives no bucket: no samples, or days = 0.
NoBuckets(p) ==
    /\ At(p, "get_daily_forecast", "L208")
    /\ (retv[p].list = <<>> \/ Top(p).a.days = 0)

\* C23: when the hourly forecast of the fallback has no samples or days = 0,
\* the Aggregator gives the DailyForecast with an empty list and cnt = 0 and
\* raises nothing; get_daily_forecast stores that forecast under its daily
\* key and returns it to its caller as a result, not as an error.
C23_EmptyForecast ==
    [][\A p \in Procs :
        /\ NoBuckets(p) =>
                /\ exc'[p] = None
                /\ Len(stack'[p]) = Len(stack[p]) + 1
                /\ stack'[p][Len(stack'[p])].fn = "SimpleCache.set"
                /\ stack'[p][Len(stack'[p])].a.key =
                        <<"daily:", Top(p).a.lat, Top(p).a.lon, Top(p).a.days>>
                /\ stack'[p][Len(stack'[p])].a.value = EmptyDaily
                /\ stack'[p][Len(stack[p])].pc = "L210"
                /\ stack'[p][Len(stack[p])].l.daily_data = EmptyDaily
        /\ (/\ At(p, "SimpleCache.set", "L52")
            /\ Below(p).fn = "get_daily_forecast"
            /\ Below(p).pc = "L210"
            /\ Below(p).l.daily_data = EmptyDaily) =>
                LET k == <<"daily:", Below(p).a.lat, Below(p).a.lon, Below(p).a.days>>
                IN  /\ k \in DOMAIN cache'
                    /\ cache'[k].value = EmptyDaily
                    /\ Len(stack'[p]) = Len(stack[p]) - 1
                    /\ exc'[p] = None
        /\ (At(p, "get_daily_forecast", "L210") /\ Top(p).l.daily_data = EmptyDaily) =>
                /\ stack'[p] = <<>>
                /\ result'[p] = EmptyDaily
    ]_vars

\* get_daily_forecast with days = 0 fell back to an hourly forecast of three
\* samples and returned the empty forecast, which the cache holds under the
\* key of days = 0, next to the empty forecast that an hourly forecast without
\* samples had left under the key of days = 1.
C23_Witness ==
    \E p \in Procs :
        /\ Ended(p)
        /\ op[p].fn = "get_daily_forecast"
        /\ op[p].a.days = 0
        /\ Len(calls[p]) = 2
        /\ calls[p][2].endpoint = "/data/2.5/forecast"
        /\ calls[p][2].gets[1].t = "http"
        /\ calls[p][2].gets[1].status = 200
        /\ Len(calls[p][2].gets[1].body.list) = 3
        /\ result[p] = EmptyDaily
        /\ <<"daily:", 10, 20, 0>> \in DOMAIN cache
        /\ cache[<<"daily:", 10, 20, 0>>].value = EmptyDaily
        /\ <<"daily:", 10, 20, 1>> \in DOMAIN cache
        /\ cache[<<"daily:", 10, 20, 1>>].value = EmptyDaily

----------------------------------------------------------------------------
(* Claims about callers that share a key, under SpecConc *)

\* Callers p and q are both at, or have both ended, the same weather fetch
\* with the same key. Under SpecConc neither was forgotten, so q started
\* before p ended and p before q ended: each read the cache, if it did, before
\* the other completed.
SameKeyPair(p, q) ==
    /\ p # q
    /\ op[p] # None
    /\ op[q] # None
    /\ op[p].fn \in WeatherFetches
    /\ op[q].fn = op[p].fn
    /\ OpKey(op[p].fn, op[p].a) = OpKey(op[q].fn, op[q].a)

\* The typed body of the answer to an invocation, None when there is none.
Answer(inv, entity(_)) ==
    IF inv.gets # <<>> /\ inv.gets[1].t = "http" /\ inv.gets[1].status = 200
         /\ entity(inv.gets[1].body).ok
    THEN entity(inv.gets[1].body).v
    ELSE None

\* What caller p's fetch returns when it returns the response of its own
\* network call: the typed answer to its request, for get_daily_forecast the
\* typed answer to its native request or, failing that, the Aggregator's
\* summary of the answer to its own hourly request. None when it has no such
\* response.
OwnResponse(p) ==
    CASE op[p].fn = "get_current_weather" ->
            IF calls[p] = <<>> THEN None ELSE Answer(calls[p][1], CurrentWeather)
      [] op[p].fn = "get_hourly_forecast" ->
            IF calls[p] = <<>> THEN None ELSE Answer(calls[p][1], HourlyForecast)
      [] op[p].fn = "get_daily_forecast" ->
            IF calls[p] = <<>> THEN None
            ELSE IF Answer(calls[p][1], DailyForecast) # None
                 THEN Answer(calls[p][1], DailyForecast)
                 ELSE IF Len(calls[p]) = 2 /\ Answer(calls[p][2], HourlyForecast) # None
                      THEN AggregateHourlyToDaily(
                               Answer(calls[p][2], HourlyForecast), op[p].a.days, tz)
                      ELSE None

\* Caller p's get_daily_forecast read the cache once more after the other
\* call had completed: its native request failed and its fallback was served
\* from the hourly entry the other call had stored on completing (the store
\* was empty when the two began).
ReadAfterCompletion(p) ==
    /\ op[p].fn = "get_daily_forecast"
    /\ Len(calls[p]) = 1
    /\ Answer(calls[p][1], DailyForecast) = None

\* Caller p's operation ends in this step by returning a value.
ReturnsNow(p) ==
    /\ stack[p] # <<>>
    /\ stack'[p] = <<>>
    /\ result'[p].t # "exc"

\* C24: of two calls of one fetch with one key that are in flight together,
\* each has issued a request of its own whenever the loop is free, the first
\* of them to the endpoint of the fetch and each with one GET; a call all of
\* whose cache reads came before the other completed returns the response of
\* its own call; and when the second of the two returns after the first has
\* returned, the cache holds under the key the value this second one returns.
C24_NoSharedInFlight ==
    [][\A p \in Procs, q \in Procs :
        SameKeyPair(p, q) =>
            /\ running' = 0 =>
                    /\ calls'[p] # <<>>
                    /\ calls'[p][1].endpoint \in
                            {"/data/2.5/weather", "/data/2.5/forecast",
                             "/data/2.5/forecast/daily"}
                    /\ \A i \in 1..Len(calls'[p]) : Len(calls'[p][i].gets) = 1
            /\ ReturnsNow(p) =>
                    /\ ~ReadAfterCompletion(p) => result'[p] = OwnResponse(p)
                    /\ (Ended(q) /\ result[q].t # "exc") =>
                            LET k == OpKey(op[p].fn, op[p].a)
                            IN  /\ k \in DOMAIN cache'
                                /\ cache'[k].value = result'[p]
    ]_vars

\* Two get_current_weather calls with use_cache for one place were in flight
\* together and got different answers; the one whose request was issued first
\* returned last, and the cache holds its answer.
C24_Witness ==
    \E p \in Procs, q \in Procs :
        /\ SameKeyPair(p, q)
        /\ op[p].fn = "get_current_weather"
        /\ op[p].a.use_cache
        /\ op[q].a.use_cache
        /\ Ended(p)
        /\ Ended(q)
        /\ calls[p][1].nth < calls[q][1].nth
        /\ result[p].t = "CurrentWeather"
        /\ result[q].t = "CurrentWeather"
        /\ result[p] # result[q]
        /\ result[p] = OwnResponse(p)
        /\ result[q] = OwnResponse(q)
        /\ cache[OpKey(op[p].fn, op[p].a)].value = result[p]

----------------------------------------------------------------------------
(* Claims about what the operations write to the cache, under Spec *)

\* The operations that write to the cache.
Writers ==
    {"get_current_weather", "get_hourly_forecast", "get_daily_forecast",
     "geocode_location"}

\* The keys of the entries a step adds or overwrites.
Written == {k \in DOMAIN cache' : k \notin DOMAIN cache \/ cache'[k] # cache[k]}

\* The complete result that the operation calling set for caller p has to
\* store: the typed answer to its last request, which got status 200; at line
\* 209 the Aggregator's summary of the hourly forecast its fallback fetched
\* or, when no request followed the native one, found in the cache. None when
\* there is no such result.
CompleteResult(p) ==
    LET f == Below(p)
        hourly == IF LastCall(p).endpoint = "/data/2.5/forecast"
                  THEN Answer(LastCall(p), HourlyForecast)
                  ELSE IF <<"hourly:", f.a.lat, f.a.lon>> \in DOMAIN cache
                       THEN cache[<<"hourly:", f.a.lat, f.a.lon>>].value
                       ELSE None
    IN  IF calls[p] = <<>> THEN None
        ELSE CASE f.fn = "get_current_weather" /\ f.pc = "L143" ->
                    Answer(LastCall(p), CurrentWeather)
               [] f.fn = "get_hourly_forecast" /\ f.pc = "L171" ->
                    Answer(LastCall(p), HourlyForecast)
               [] f.fn = "get_daily_forecast" /\ f.pc = "L205" ->
                    Answer(LastCall(p), DailyForecast)
               [] f.fn = "get_daily_forecast" /\ f.pc = "L210" ->
                    IF hourly = None THEN None
                    ELSE AggregateHourlyToDaily(hourly, f.a.days, tz)
               [] f.fn = "geocode_location" /\ f.pc = "L318" ->
                    Answer(LastCall(p), GeocodingResults)
               [] OTHER -> None

----------------------------------------------------------------------------
(* Claims about the keys of the weather fetches, under SpecFetch *)

\* A coordinate rounded as the specification has it rounded for the key.
\* The coordinates of the model count tenths of the rounding step: 10 and 11
\* are two places that round to the same.
Rounded(x) == 10 * ((x + 5) \div 10)

\* The prefix of the keys of a fetch.
KeyKind(fn) ==
    CASE fn = "get_current_weather" -> "current:"
      [] fn = "get_hourly_forecast" -> "hourly:"
      [] fn = "get_daily_forecast" -> "daily:"

\* C26 as stated: when get_current_weather or get_hourly_forecast with
\* use_cache has read the cache while the store held an unexpired entry of
\* its kind for coordinates equal to its own after rounding, the read was a
\* hit (and the fetch goes on without a request); and an entry under a key of
\* one kind holds a value of that kind.
C26_Original ==
    /\ \A p \in Procs : \A fn \in {"get_current_weather", "get_hourly_forecast"} :
            (At(p, fn, CheckLine(fn)) /\ Top(p).a.use_cache) =>
                ((\E k \in DOMAIN cache :
                    /\ k[1] = KeyKind(fn)
                    /\ Rounded(k[2]) = Rounded(Top(p).a.lat)
                    /\ Rounded(k[3]) = Rounded(Top(p).a.lon)
                    /\ now <= cache[k].expiry)
                 => retv[p] # None)
    /\ \A k \in DOMAIN cache :
            /\ k[1] = "current:" => cache[k].value.t = "CurrentWeather"
            /\ k[1] = "hourly:" => cache[k].value.t = "HourlyForecast"
            /\ k[1] = "daily:" => cache[k].value.t = "DailyForecast"

----------------------------------------------------------------------------
(* Claims about the credential, under SpecCred *)

\* An error made of nothing but the way the GET ended: the same for every
\* client, whatever its API key.
OutcomeError(got) ==
    CASE got.t = "transport" ->
            Exc("WeatherAPIError", <<"Network error: ", got.detail>>)
      [] got.t = "cancelled" -> Exc("CancelledError", <<>>)
      [] got.t = "http" /\ got.status = 401 ->
            Exc("APIKeyError", <<"Invalid API key">>)
      [] got.t = "http" /\ got.status = 404 ->
            Exc("LocationNotFoundError", <<"Location not found">>)
      [] got.t = "http" /\ got.status = 429 ->
            Exc("RateLimitError", <<"API rate limit exceeded">>)
      [] got.t = "http" /\ got.status \in {301, 500} ->
            Exc("WeatherAPIError", <<"API error: ", StrInt(got.status)>>)
      [] OTHER -> Exc("JSONDecodeError", <<"Expecting value">>)

----------------------------------------------------------------------------
(* Claims about termination, under SpecLive *)

\* The most network calls an operation makes.
MaxCalls(fn) ==
    CASE fn = "get_current_weather" -> 1
      [] fn = "get_hourly_forecast" -> 1
      [] fn = "get_daily_forecast" -> 2
      [] fn = "geocode_location" -> 2
      [] fn = "get_weather_for_location" -> 3
      [] OTHER -> 0

\* The operation of caller p is in progress.
InProgress(p) == stack[p] # <<>>

\* C28: an operation never makes more network calls than 1 for
\* get_current_weather and get_hourly_forecast, 2 for get_daily_forecast
\* (native, then hourly) and geocode_location (the query, then the narrowed
\* one), 3 for get_weather_for_location, each call with one GET; and, every
\* awaited GET ending at last, an operation in progress ends.
C28_Terminates ==
    /\ [](\A p \in Procs :
            op[p] # None =>
                /\ Len(calls[p]) <= MaxCalls(op[p].fn)
                /\ \A i \in 1..Len(calls[p]) : Len(calls[p][i].gets) <= 1
                /\ (op[p].fn = "get_daily_forecast" /\ Len(calls[p]) = 2) =>
                        /\ calls[p][1].endpoint = "/data/2.5/forecast/daily"
                        /\ calls[p][2].endpoint = "/data/2.5/forecast"
                /\ (op[p].fn = "geocode_location" /\ Len(calls[p]) = 2) =>
                        calls[p][2].params.q = CityOnly(op[p].a.location_name))
    /\ \A p \in Procs : InProgress(p) ~> ~InProgress(p)

\* get_weather_for_location ended after three network calls: the query, the
\* narrowed query and the weather request.
C28_Witness ==
    \E p \in Procs :
        /\ Ended(p)
        /\ op[p].fn = "get_weather_for_location"
        /\ Len(calls[p]) = 3
        /\ calls[p][1].endpoint = "/geo/1.0/direct"
        /\ calls[p][2].endpoint = "/geo/1.0/direct"
        /\ calls[p][3].endpoint = "/data/2.5/weather"
        /\ result[p].t = "tuple"

----------------------------------------------------------------------------
(* Claims about use_cache, under SpecFetch *)

\* The endpoint of the first request of a weather fetch.
FirstEndpoint(fn) ==
    CASE fn = "get_current_weather" -> "/data/2.5/weather"
      [] fn = "get_hourly_forecast" -> "/data/2.5/forecast"
      [] fn = "get_daily_forecast" -> "/data/2.5/forecast/daily"

\* Caller p's operation is a weather fetch called with use_cache=False.
Uncached(p) ==
    /\ op[p] # None
    /\ op[p].fn \in WeatherFetches
    /\ ~op[p].a.use_cache

\* C29: a weather fetch called with use_cache=False never reads the cache,
\* and the hourly fetch of its fallback is called with use_cache=False too;
\* it has issued a request to its endpoint when it ends, whatever the store
\* holds; when it returns, its result is the response of its own requests and
\* the store holds that result under its key with the expiry of a set made
\* now (after a fallback also the hourly answer under the hourly key). A
\* fetch with use_cache=True that has read the cache while the entry was in
\* the store got the value of the entry, and returns it without a request.
C29_BypassesReadOnly ==
    [][\A p \in Procs :
        /\ Uncached(p) =>
            /\ \A i \in 1..Len(stack'[p]) :
                    /\ stack'[p][i].fn # "SimpleCache.get"
                    /\ stack'[p][i].fn = "get_hourly_forecast" =>
                            ~stack'[p][i].a.use_cache
            /\ (stack[p] # <<>> /\ stack'[p] = <<>>) =>
                    /\ calls[p] # <<>>
                    /\ calls[p][1].endpoint = FirstEndpoint(op[p].fn)
            /\ ReturnsNow(p) =>
                    LET k == OpKey(op[p].fn, op[p].a)
                        hk == <<"hourly:", op[p].a.lat, op[p].a.lon>>
                    IN  /\ result'[p] = OwnResponse(p)
                        /\ k \in DOMAIN cache'
                        /\ cache'[k] = [value |-> result'[p], expiry |-> now + CacheTtl]
                        /\ Len(calls[p]) = 2 =>
                                /\ hk \in DOMAIN cache'
                                /\ cache'[hk].value = Answer(calls[p][2], HourlyForecast)
        /\ \A fn \in WeatherFetches :
                (/\ At(p, fn, CheckLine(fn))
                 /\ Len(stack[p]) = 1
                 /\ OpKey(fn, Top(p).a) \in DOMAIN cache) =>
                        /\ retv[p] = cache[OpKey(fn, Top(p).a)].value
                        /\ result'[p] = retv[p]
                        /\ calls'[p] = <<>>
    ]_vars

\* The second caller's get_daily_forecast with use_cache=False is in its
\* fallback, and the hourly fetch of the fallback is about to overwrite the
\* unexpired hourly entry that the first caller left with the answer to a
\* request of its own, a different one.
C29_Witness ==
    \E p \in Procs :
        /\ Uncached(p)
        /\ op[p].fn = "get_daily_forecast"
        /\ At(p, "SimpleCache.set", "L52")
        /\ Below(p).fn = "get_hourly_forecast"
        /\ ~Below(p).a.use_cache
        /\ Len(calls[p]) = 2
        /\ Top(p).a.key \in DOMAIN cache
        /\ now <= cache[Top(p).a.key].expiry
        /\ cache[Top(p).a.key].value # Top(p).a.value
        /\ Top(p).a.value = Answer(calls[p][2], HourlyForecast)

----------------------------------------------------------------------------
(* Claims about the entries of the fallback, under SpecFetch *)

\* Caller p's get_daily_forecast is about to return the summary its fallback
\* made and stored.
FallbackDone(p) == At(p, "get_daily_forecast", "L210")

\* C30: when get_daily_forecast(lat, lon, days) returns through its fallback,
\* the store holds the hourly entry of (lat, lon) and, under the daily key of
\* (lat, lon, days) with the expiry of a set made now, the forecast it
\* returns, which is the summary of that hourly entry. get_daily_forecast
\* reads the cache under the key of its own lat, lon and days: when that key
\* is in the store after the read, it returns the entry's value with no
\* request; when it is not, whatever the store holds for other day counts, it
\* goes on to request the native endpoint for its days.
C30_FallbackEntries ==
    [][\A p \in Procs :
        /\ FallbackDone(p) =>
                LET a == Top(p).a
                    hk == <<"hourly:", a.lat, a.lon>>
                    dk == <<"daily:", a.lat, a.lon, a.days>>
                IN  /\ hk \in DOMAIN cache'
                    /\ dk \in DOMAIN cache'
                    /\ result'[p] = AggregateHourlyToDaily(cache'[hk].value, a.days, tz)
                    /\ cache'[dk] = [value |-> result'[p], expiry |-> now + CacheTtl]
        /\ (At(p, "SimpleCache.get", "L30") /\ Below(p).fn = "get_daily_forecast") =>
                Top(p).a.key = <<"daily:", Below(p).a.lat, Below(p).a.lon, Below(p).a.days>>
        /\ At(p, "get_daily_forecast", "L196") =>
                LET a == Top(p).a
                    dk == <<"daily:", a.lat, a.lon, a.days>>
                IN  IF dk \in DOMAIN cache
                    THEN /\ result'[p] = cache[dk].value
                         /\ calls'[p] = <<>>
                         /\ stack'[p] = <<>>
                    ELSE /\ stack'[p][Len(stack'[p])].pc = "L199"
                         /\ result'[p] = Pending
        /\ At(p, "get_daily_forecast", "L199") =>
                /\ stack'[p][Len(stack'[p])].fn = "_request"
                /\ stack'[p][Len(stack'[p])].a.endpoint = "/data/2.5/forecast/daily"
                /\ stack'[p][Len(stack'[p])].a.params.cnt = Top(p).a.days
        /\ (At(p, "_request", "L95") /\ Top(p).a.endpoint = "/data/2.5/forecast/daily") =>
                /\ Len(calls'[p]) = 1
                /\ calls'[p][1].endpoint = "/data/2.5/forecast/daily"
    ]_vars

\* The second caller's get_daily_forecast for 2 days has read the cache and
\* found nothing under its key, and goes on to the native endpoint, while
\* the store holds, unexpired, the hourly entry and under the key of 1 day the
\* summary of one day that a fallback made of it.
C30_Witness ==
    \E p \in Procs :
        /\ At(p, "get_daily_forecast", "L196")
        /\ Top(p).a.use_cache
        /\ Top(p).a.days = 2
        /\ retv[p] = None
        /\ <<"hourly:", 10, 20>> \in DOMAIN cache
        /\ <<"daily:", 10, 20, 1>> \in DOMAIN cache
        /\ <<"daily:", 10, 20, 2>> \notin DOMAIN cache
        /\ now <= cache[<<"daily:", 10, 20, 1>>].expiry
        /\ cache[<<"daily:", 10, 20, 1>>].value.cnt = 1
        /\ cache[<<"daily:", 10, 20, 1>>].value =
                AggregateHourlyToDaily(cache[<<"hourly:", 10, 20>>].value, 1, tz)

====
